---------------------------- MODULE Spec2Model ----------------------------
(***************************************************************************)
(* Model of the Pixel Soup client: the session and the datagram transport  *)
(* (class Pipe of src/Pixel Soup/src/frontend/test/test2.py and the driver *)
(* at the end of that file), the frame codec, and the bridge between the   *)
(* render loop and the transport (networking and GameView.stream of        *)
(* src/Pixel Soup/src/frontend/views/gameview.py).                         *)
(*                                                                         *)
(* Each part has its own specification; a specification leaves the         *)
(* variables of the other parts at their idle values.                      *)
(*                                                                         *)
(* A Python str / bytes value is a sequence of one-character strings, so   *)
(* that split(",,"), int() and the comparisons with the reply tokens are   *)
(* computed as the code computes them.  The character "xFF" stands for a   *)
(* byte that is not valid UTF-8.  Python's None is the empty tuple and a   *)
(* set attribute x is the one-element tuple <<x>>.                         *)
(***************************************************************************)
EXTENDS Integers, Sequences, FiniteSets, TLC

VARIABLES
    connected,      \* Pipe.connected
    username,       \* Pipe.username
    udp_password,   \* Pipe.udp_password
    game_port,      \* Pipe.game_port
    tcp,            \* state of the socket Pipe.tcp: "unconnected" | "connected"
    call,           \* the last completed call: arguments, I/O done, outcome
    pre             \* the Pipe attributes as they were when that call began

sessionVars == <<connected, username, udp_password, game_port, tcp, call, pre>>

(* The driver at the end of test2.py. *)
VARIABLES
    pc,             \* where the driver is: "login", "await", "input", "crashed"
                    \* ("idle" where the driver does not run)
    login_printed   \* what print(pl.login(...)) wrote: None before it ran

driverVars == <<pc, login_printed>>

(* The frame codec, applied to one batch of payloads. *)
VARIABLES
    payloads,       \* the payloads handed to pack
    datagram,       \* pack's result: None before pack has run
    batch           \* unpack's result: None before unpack has run

codecVars == <<payloads, datagram, batch>>

(* The bridge (networking) and the render loop's side of it (stream). *)
VARIABLES
    forward,        \* the outgoing queue, oldest entry first
    feedback,       \* the feedback queue, oldest entry first
    bpc,            \* where networking is: "qsize", "drop", "get", "transport",
                    \* "waiting" (in recvfrom, for a reply that was lost),
                    \* "put", "crashed"
    items_no,       \* networking's items_no
    todo,           \* iterations of its for loop still to run
    data,           \* networking's data: None before the first get
    result,         \* what udp.transport returned, until it is put
    rpc,            \* where stream is: "put", "poll", "crashed"
    polled,         \* the last result stream read from feedback
    players,        \* the positions of player1, player2 and player3
    wall_list,      \* the heights of the walls stream has added
    stop,           \* a stop of the bridge has been asked for from outside
    hist            \* history of the current cycle, for the properties

viewVars == <<players, wall_list>>

bridgeVars ==
    <<forward, feedback, bpc, items_no, todo, data, result, rpc, polled,
      viewVars, stop, hist>>

(* The widgets of the other games of the repository, one object each: a    *)
(* record of the object's attributes, None while the object is not there.  *)
VARIABLES
    mana_bar,       \* a ManaBar (monkeys-and-frogs-on-fire)
    my_game,        \* the MyGame window of triple-dungeon and its player sprite
    icon_button,    \* an IconButton (artemis)
    soundtrack      \* a SoundtrackManager (monkeys-and-frogs-on-fire)

widgetVars == <<mana_bar, my_game, icon_button, soundtrack>>

vars == <<sessionVars, driverVars, codecVars, bridgeVars, widgetVars>>

-----------------------------------------------------------------------------
(* Bounds of the model: how many distinct ports and secrets the peer's     *)
(* start messages are drawn from.                                          *)
MaxPorts == 2
MaxSecrets == 2

None == <<>>
Some(x) == <<x>>

-----------------------------------------------------------------------------
(* Text helpers. *)

DigitChars == <<"0", "1", "2", "3", "4", "5", "6", "7", "8", "9">>

IsDigit(c) == \E i \in 1..10 : DigitChars[i] = c

DigitVal(c) == (CHOOSE i \in 1..10 : DigitChars[i] = c) - 1

IsSpace(c) == c \in {" ", "\n", "\t"}

RECURSIVE StripLeft(_)
StripLeft(s) ==
    IF s # <<>> /\ IsSpace(s[1]) THEN StripLeft(Tail(s)) ELSE s

RECURSIVE StripRight(_)
StripRight(s) ==
    IF s # <<>> /\ IsSpace(s[Len(s)])
    THEN StripRight(SubSeq(s, 1, Len(s) - 1))
    ELSE s

Strip(s) == StripRight(StripLeft(s))

(* The digits part of an int() literal: what follows the optional sign. *)
IntBody(s) ==
    LET t == Strip(s)
    IN  IF t # <<>> /\ t[1] \in {"+", "-"} THEN Tail(t) ELSE t

(* int(s) succeeds: optional surrounding white space, an optional sign,   *)
(* then decimal digits, with single underscores allowed between digits.    *)
IsInt(s) ==
    LET b == IntBody(s)
    IN  /\ b # <<>>
        /\ IsDigit(b[1])
        /\ IsDigit(b[Len(b)])
        /\ \A i \in 1..Len(b) : IsDigit(b[i]) \/ b[i] = "_"
        /\ \A i \in 1..(Len(b) - 1) : ~(b[i] = "_" /\ b[i + 1] = "_")

RECURSIVE DigitsVal(_, _)
DigitsVal(b, acc) ==
    IF b = <<>> THEN acc
    ELSE IF b[1] = "_" THEN DigitsVal(Tail(b), acc)
    ELSE DigitsVal(Tail(b), 10 * acc + DigitVal(b[1]))

(* int(s), for an s with IsInt(s). *)
IntOf(s) ==
    LET t == Strip(s)
        v == DigitsVal(IntBody(s), 0)
    IN  IF t[1] = "-" THEN 0 - v ELSE v

(* str(n) for a natural number n: its decimal digits. *)
RECURSIVE StrOf(_)
StrOf(n) ==
    IF n < 10 THEN <<DigitChars[n + 1]>>
    ELSE StrOf(n \div 10) \o <<DigitChars[(n % 10) + 1]>>

StartsWith(s, p) == Len(s) >= Len(p) /\ SubSeq(s, 1, Len(p)) = p

(* s.split(sep): cut at the leftmost, non-overlapping occurrences of sep. *)
RECURSIVE SplitFrom(_, _, _)
SplitFrom(s, sep, cur) ==
    IF s = <<>> THEN <<cur>>
    ELSE IF StartsWith(s, sep)
         THEN <<cur>> \o SplitFrom(SubSeq(s, Len(sep) + 1, Len(s)), sep, <<>>)
         ELSE SplitFrom(Tail(s), sep, Append(cur, s[1]))

Split(s, sep) == SplitFrom(s, sep, <<>>)

RECURSIVE Join(_, _)
Join(fields, sep) ==
    IF Len(fields) = 0 THEN <<>>
    ELSE IF Len(fields) = 1 THEN fields[1]
    ELSE fields[1] \o sep \o Join(Tail(fields), sep)

(* bytes.decode() succeeds: every byte is valid UTF-8. *)
Decodable(d) == \A i \in 1..Len(d) : d[i] # "xFF"

-----------------------------------------------------------------------------
(* The literal tokens of the wire contract. *)

SEP == <<",", ",">>
START == <<"S", "t", "a", "r", "t">>
RENAME == <<"R", "e", "n", "a", "m", "e">>
DONE == <<"D", "o", "n", "e">>
MISSING == <<"M", "i", "s", "s", "i", "n", "g">>
FULL == <<"F", "u", "l", "l">>
CREATE == <<"c", "r", "e", "a", "t", "e">>
JOIN == <<"j", "o", "i", "n">>

-----------------------------------------------------------------------------
(* The environment: what callers pass and what the peer and the socket     *)
(* layer answer.                                                           *)

Modes == {CREATE, JOIN, <<"w", "a", "t", "c", "h">>}

Rooms == {<<"r", "o", "o", "m", "1">>}

Users == {<<"a", "l", "i", "c", "e">>, <<"b", "o", "b">>}

Ports == {5005 + i : i \in 0..(MaxPorts - 1)}

Secrets == {42 + i : i \in 0..(MaxSecrets - 1)}

(* Well-formed start messages, "Start,,<port>,,<secret>". *)
StartMessages ==
    {Join(<<START, StrOf(p), StrOf(s)>>, SEP) : p \in Ports, s \in Secrets}

(* Start messages the code cannot decode completely, or decodes in one of *)
(* the other spellings int() accepts.                                      *)
OddStartMessages ==
    { START,
      Join(<<START, StrOf(5005)>>, SEP),
      Join(<<START, StrOf(5006), <<"4", "x">>>>, SEP),
      Join(<<START, <<"p">>, StrOf(42)>>, SEP),
      Join(<<START, <<" ", "5", "_", "0", "0", "5">>, <<"-", "7", "\n">>>>, SEP),
      Join(<<START, StrOf(5005), StrOf(42), <<"e", "x", "t", "r", "a">>>>, SEP) }

(* Messages whose first field is not the literal "Start". *)
OtherMessages ==
    { <<>>,
      DONE,
      Join(<<<<"W", "a", "i", "t">>, StrOf(2)>>, SEP),
      Join(<<<<"s", "t", "a", "r", "t">>, StrOf(5006), StrOf(43)>>, SEP),
      Join(<<START \o <<"e", "d">>, StrOf(5006), StrOf(43)>>, SEP),
      <<"S", "t", "a", "r", "t", ",", "5", "0", "0", "6", ",", "4", "3">>,
      <<"xFF", "S">> }

(* What the peer may send while await_response waits. *)
Messages == StartMessages \cup OddStartMessages \cup OtherMessages

(* What the peer may send in reply to login. *)
Replies ==
    { RENAME, DONE, MISSING, FULL,
      <<>>,
      <<"d", "o", "n", "e">>,
      DONE \o <<"\n">>,
      <<"F", "u", "l">>,
      Join(<<START, StrOf(5005), StrOf(42)>>, SEP) }

(* Exceptions of the socket layer.  Only the first three are subclasses of *)
(* ConnectionError; TimeoutError and plain OSError (unreachable host,      *)
(* EISCONN, ENOTCONN) are not.                                             *)
ConnectionErrors ==
    {"ConnectionRefusedError", "ConnectionAbortedError", "ConnectionResetError"}

(* socket.connect on Pipe.tcp: a socket that is already connected refuses  *)
(* a second connect with OSError (EISCONN).                                *)
ConnectOutcomes(sock) ==
    IF sock = "connected" THEN {"OSError"}
    ELSE {"ok", "ConnectionRefusedError", "TimeoutError", "OSError"}

(* socket.recv on Pipe.tcp: the bytes it returns, within its budget (none  *)
(* at all when the peer has closed the stream in an orderly way), or the   *)
(* exception it raises.                                                    *)
RecvOutcomes(sock, msgs) ==
    IF sock = "connected"
    THEN [exc : {"none"}, data : msgs]
         \cup [exc : {"ConnectionAbortedError", "ConnectionResetError"},
               data : {<<>>}]
    ELSE [exc : {"OSError"}, data : {<<>>}]

NoRecv == [exc |-> "unused", data |-> <<>>]

-----------------------------------------------------------------------------
(* The Pipe attributes, and the record kept of a call. *)

Attrs ==
    [connected |-> connected, username |-> username,
     udp_password |-> udp_password, game_port |-> game_port]

(* The socket calls a method makes, in order. *)
IoConnect == <<"connect">>
IoSend(m) == <<"send", m>>
IoRecv == <<"recv">>

(* op: the method; entry, room, user: login's arguments; conn: how the     *)
(* call's socket.connect ended ("unused" when it made none); rx: how its   *)
(* socket.recv ended; io: the socket calls it made, in order; kind:        *)
(* "return", "sentinel" (the list [False]) or "raise"; val: the value      *)
(* returned; exc: the exception raised.                                    *)
Call(op, entry, room, user, conn, rx, io, kind, val, exc) ==
    [op |-> op, entry |-> entry, room |-> room, user |-> user,
     conn |-> conn, rx |-> rx, io |-> io, kind |-> kind, val |-> val,
     exc |-> exc]

DriverIdle ==
    /\ pc = "idle"
    /\ login_printed = None

CodecIdle ==
    /\ payloads = <<>>
    /\ datagram = None
    /\ batch = None

(* seen: the outgoing queue as qsize found it; dropped, sent: the entries  *)
(* the cycle has discarded and transmitted so far; enq: how many updates   *)
(* the render loop has enqueued; log: the updates handed to transport      *)
(* since the start, in order.                                              *)
NoHist ==
    [seen |-> <<>>, dropped |-> <<>>, sent |-> <<>>, enq |-> 0, log |-> <<>>]

BridgeIdle ==
    /\ forward = <<>>
    /\ feedback = <<>>
    /\ bpc = "idle"
    /\ items_no = 0
    /\ todo = 0
    /\ data = None
    /\ result = None
    /\ rpc = "idle"
    /\ polled = None
    /\ players = <<>>
    /\ wall_list = <<>>
    /\ stop = FALSE
    /\ hist = NoHist

WidgetIdle ==
    /\ mana_bar = None
    /\ my_game = None
    /\ icon_button = None
    /\ soundtrack = None

(* A Pipe as its constructor leaves it. *)
SessionInit ==
    /\ connected = FALSE
    /\ username = None
    /\ udp_password = None
    /\ game_port = None
    /\ tcp = "unconnected"
    /\ call = Call("init", <<>>, <<>>, <<>>, "unused", NoRecv, <<>>,
                   "return", None, "none")
    /\ pre = [connected |-> FALSE, username |-> None,
              udp_password |-> None, game_port |-> None]

Init == SessionInit /\ DriverIdle /\ CodecIdle /\ BridgeIdle /\ WidgetIdle

-----------------------------------------------------------------------------
(* connect: the except clause catches ConnectionError and nothing else. *)

ConnectReturnsFalse(co) == co \in ConnectionErrors

Connect(co) ==
    /\ co \in ConnectOutcomes(tcp)
    /\ pre' = Attrs
    /\ UNCHANGED <<username, udp_password, game_port>>
    /\ IF co = "ok"
       THEN /\ tcp' = "connected"
            /\ connected' = TRUE
            /\ call' = Call("connect", <<>>, <<>>, <<>>, co, NoRecv,
                            <<IoConnect>>, "return", TRUE, "none")
       ELSE /\ UNCHANGED <<tcp, connected>>
            /\ IF ConnectReturnsFalse(co)
               THEN call' = Call("connect", <<>>, <<>>, <<>>, co, NoRecv,
                                 <<IoConnect>>, "return", FALSE, "none")
               ELSE call' = Call("connect", <<>>, <<>>, <<>>, co, NoRecv,
                                 <<IoConnect>>, "raise", None, co)

-----------------------------------------------------------------------------
(* login *)

(* Faulty variant: the fields are separated by one comma instead of two. *)
LoginMessageSingleComma(entry, room, user) ==
    entry \o <<",">> \o room \o <<",">> \o user

(* f"{entry},,{room_name},,{username}".encode() *)
LoginMessage(entry, room, user) == entry \o SEP \o room \o SEP \o user

(* Faulty variant: "create" accepts every reply that begins with "Done". *)
LoginReplyPrefixDone(entry, response) ==
    IF entry = CREATE
    THEN IF response = RENAME THEN <<FALSE, "rename">>
         ELSE IF StartsWith(response, DONE) THEN <<TRUE, "created">>
         ELSE <<FALSE, "invalid">>
    ELSE IF response = MISSING THEN <<FALSE, "missing">>
         ELSE IF response = FULL THEN <<FALSE, "full">>
         ELSE <<TRUE, "joined">>

(* Faulty variant: the "join" branch has lost its test for "Full". *)
LoginReplyNoFull(entry, response) ==
    IF entry = CREATE
    THEN IF response = RENAME THEN <<FALSE, "rename">>
         ELSE IF response = DONE THEN <<TRUE, "created">>
         ELSE <<FALSE, "invalid">>
    ELSE IF response = MISSING THEN <<FALSE, "missing">>
         ELSE <<TRUE, "joined">>

(* The reply decoding: the two branches on entry and on the response. *)
LoginReply(entry, response) ==
    IF entry = CREATE
    THEN IF response = RENAME THEN <<FALSE, "rename">>
         ELSE IF response = DONE THEN <<TRUE, "created">>
         ELSE <<FALSE, "invalid">>
    ELSE IF response = MISSING THEN <<FALSE, "missing">>
         ELSE IF response = FULL THEN <<FALSE, "full">>
         ELSE <<TRUE, "joined">>

(* Faulty variant: a failed connect is reported with the reason "invalid". *)
LoginConnectFailureInvalid == <<FALSE, "invalid">>

(* What login returns when its connect returned False. *)
LoginConnectFailure == <<FALSE, "error in connection">>

(* The outcomes of the connect login makes, and of the recv that follows. *)
LoginConnectOutcomes ==
    IF connected THEN {"unused"} ELSE ConnectOutcomes(tcp)

LoginRecvOutcomes(co) ==
    IF co \in {"unused", "ok"}
    THEN RecvOutcomes(IF co = "ok" THEN "connected" ELSE tcp, Replies)
    ELSE {NoRecv}

Login(entry, room, user, co, rx) ==
    /\ co \in LoginConnectOutcomes
    /\ rx \in LoginRecvOutcomes(co)
    /\ pre' = Attrs
    /\ username' = Some(user)
    /\ UNCHANGED <<udp_password, game_port>>
    /\ IF ~connected /\ co # "ok"
       THEN \* the connect failed: it returned False, or it raised
            /\ UNCHANGED <<tcp, connected>>
            /\ IF ConnectReturnsFalse(co)
               THEN call' = Call("login", entry, room, user, co, rx,
                                 <<IoConnect>>, "return", LoginConnectFailure,
                                 "none")
               ELSE call' = Call("login", entry, room, user, co, rx,
                                 <<IoConnect>>, "raise", None, co)
       ELSE \* connected, now or before: one send, then one recv
            /\ tcp' = IF connected THEN tcp ELSE "connected"
            /\ connected' = TRUE
            /\ LET io == (IF connected THEN <<>> ELSE <<IoConnect>>)
                         \o <<IoSend(LoginMessage(entry, room, user)), IoRecv>>
               IN  IF rx.exc = "none"
                   THEN call' = Call("login", entry, room, user, co, rx, io,
                                     "return", LoginReply(entry, rx.data), "none")
                   ELSE call' = Call("login", entry, room, user, co, rx, io,
                                     "raise", None, rx.exc)

-----------------------------------------------------------------------------
(* await_response *)

(* Faulty variant: every first field that begins with "Start" is taken for it. *)
IsStartPrefix(fields) == StartsWith(fields[1], START)

(* data[0] == "Start" *)
IsStart(fields) == fields[1] = START

(* int(data[1]) and int(data[2]); sequences here start at 1.  Each raises  *)
(* IndexError when the field is missing and ValueError when int() rejects  *)
(* it.                                                                     *)
PortOf(fields) == IntOf(fields[2])

PortError(fields) ==
    IF Len(fields) < 2 THEN "IndexError"
    ELSE IF ~IsInt(fields[2]) THEN "ValueError"
    ELSE "none"

(* Faulty variant: the secret is decoded from the port's field. *)
SecretOfPortField(fields) == IntOf(fields[2])

SecretOf(fields) == IntOf(fields[3])

SecretError(fields) ==
    IF Len(fields) < 3 THEN "IndexError"
    ELSE IF ~IsInt(fields[3]) THEN "ValueError"
    ELSE "none"

(* The two assignments under the test for "Start", in the code's order:    *)
(* the port is stored before the secret is decoded, and stays stored when  *)
(* decoding the secret raises.                                             *)
StoreStart(fields) ==
    IF PortError(fields) # "none"
    THEN [game_port |-> game_port, udp_password |-> udp_password,
          exc |-> PortError(fields)]
    ELSE IF SecretError(fields) # "none"
    THEN [game_port |-> Some(PortOf(fields)), udp_password |-> udp_password,
          exc |-> SecretError(fields)]
    ELSE [game_port |-> Some(PortOf(fields)),
          udp_password |-> Some(SecretOf(fields)), exc |-> "none"]

(* The except clause catches ConnectionAbortedError and nothing else. *)
AwaitReturnsSentinel(exc) == exc = "ConnectionAbortedError"

AwaitResponse(rx) ==
    /\ rx \in RecvOutcomes(tcp, Messages)
    /\ pre' = Attrs
    /\ UNCHANGED <<connected, username, tcp>>
    /\ IF rx.exc # "none"
       THEN /\ UNCHANGED <<game_port, udp_password>>
            /\ IF AwaitReturnsSentinel(rx.exc)
               THEN call' = Call("await_response", <<>>, <<>>, <<>>, "unused", rx,
                                 <<IoRecv>>, "sentinel", None, "none")
               ELSE call' = Call("await_response", <<>>, <<>>, <<>>, "unused", rx,
                                 <<IoRecv>>, "raise", None, rx.exc)
       ELSE IF ~Decodable(rx.data)
       THEN /\ UNCHANGED <<game_port, udp_password>>
            /\ call' = Call("await_response", <<>>, <<>>, <<>>, "unused", rx,
                            <<IoRecv>>, "raise", None, "UnicodeDecodeError")
       ELSE LET fields == Split(rx.data, SEP)
            IN  IF IsStart(fields)
                THEN LET st == StoreStart(fields)
                     IN  /\ game_port' = st.game_port
                         /\ udp_password' = st.udp_password
                         /\ IF st.exc = "none"
                            THEN call' = Call("await_response", <<>>, <<>>, <<>>,
                                              "unused", rx, <<IoRecv>>, "return",
                                              fields, "none")
                            ELSE call' = Call("await_response", <<>>, <<>>, <<>>,
                                              "unused", rx, <<IoRecv>>, "raise",
                                              None, st.exc)
                ELSE /\ UNCHANGED <<game_port, udp_password>>
                     /\ call' = Call("await_response", <<>>, <<>>, <<>>, "unused",
                                     rx, <<IoRecv>>, "return", fields, "none")

-----------------------------------------------------------------------------
(* The session's callers may make the three calls in any order. *)

Next ==
    \/ \E co \in ConnectOutcomes(tcp) :
          Connect(co) /\ UNCHANGED <<driverVars, codecVars, bridgeVars, widgetVars>>
    \/ \E entry \in Modes, room \in Rooms, user \in Users :
          \E co \in LoginConnectOutcomes :
             \E rx \in LoginRecvOutcomes(co) :
                /\ Login(entry, room, user, co, rx)
                /\ UNCHANGED <<driverVars, codecVars, bridgeVars, widgetVars>>
    \/ \E rx \in RecvOutcomes(tcp, Messages) :
          AwaitResponse(rx) /\ UNCHANGED <<driverVars, codecVars, bridgeVars, widgetVars>>

Spec == Init /\ [][Next]_vars

-----------------------------------------------------------------------------
(* Properties of the session client. *)

(* C1: login in mode "create": for every reply received from the peer the  *)
(* result is (False, "rename") when the reply is exactly "Rename", (True,  *)
(* "created") when it is exactly "Done", and (False, "invalid") for every  *)
(* other reply.                                                            *)
C1_CreateReplyDecoding ==
    (call.op = "login" /\ call.entry = CREATE /\ call.rx.exc = "none") =>
        /\ call.kind = "return"
        /\ call.rx.data = RENAME => call.val = <<FALSE, "rename">>
        /\ call.rx.data = DONE => call.val = <<TRUE, "created">>
        /\ call.rx.data \notin {RENAME, DONE} => call.val = <<FALSE, "invalid">>

(* C1 witness (scenario A): login("create", "room1", "alice") against a    *)
(* peer replying "Done" has returned (True, "created").                    *)
C1_Witness ==
    /\ call.op = "login"
    /\ call.entry = CREATE
    /\ call.room = <<"r", "o", "o", "m", "1">>
    /\ call.user = <<"a", "l", "i", "c", "e">>
    /\ call.rx = [exc |-> "none", data |-> <<"D", "o", "n", "e">>]
    /\ call.kind = "return"
    /\ call.val = <<TRUE, "created">>

(* C2: login in mode "join": for every reply received from the peer the    *)
(* result is (False, "missing") when the reply is exactly "Missing",       *)
(* (False, "full") when it is exactly "Full", and (True, "joined") for     *)
(* every other reply.                                                      *)
C2_JoinReplyDecoding ==
    (call.op = "login" /\ call.entry = JOIN /\ call.rx.exc = "none") =>
        /\ call.kind = "return"
        /\ call.rx.data = MISSING => call.val = <<FALSE, "missing">>
        /\ call.rx.data = FULL => call.val = <<FALSE, "full">>
        /\ call.rx.data \notin {MISSING, FULL} => call.val = <<TRUE, "joined">>

(* C2 witness: a join answered "Full" has returned (False, "full"). *)
C2_Witness ==
    /\ call.op = "login"
    /\ call.entry = JOIN
    /\ call.rx = [exc |-> "none", data |-> <<"F", "u", "l", "l">>]
    /\ call.kind = "return"
    /\ call.val = <<FALSE, "full">>

LoginReasons == {"created", "joined", "rename", "missing", "full", "invalid"}

(* C3 as stated: every result login returns, on every path including a     *)
(* failed auto-connect, is a pair (ok, reason) whose reason is one of the  *)
(* six values created, joined, rename, missing, full, invalid.             *)
C3_ReasonIsOneOfSix ==
    (call.op = "login" /\ call.kind = "return") =>
        /\ Len(call.val) = 2
        /\ call.val[1] \in BOOLEAN
        /\ call.val[2] \in LoginReasons

(* C3 as amended: every result login returns is a pair (ok, reason); the   *)
(* reason is one of the six values whenever a reply was read, and after a  *)
(* failed auto-connect (connect returned False) the result is              *)
(* (False, "error in connection"), a seventh reason.                       *)
C3_ReasonIsOneOfSixOrConnectionError ==
    (call.op = "login" /\ call.kind = "return") =>
        /\ Len(call.val) = 2
        /\ call.val[1] \in BOOLEAN
        /\ IF call.io = <<IoConnect>>
           THEN call.val = <<FALSE, "error in connection">>
           ELSE call.val[2] \in LoginReasons

(* C3 witness: a login whose auto-connect was refused has returned. *)
C3_Witness ==
    /\ call.op = "login"
    /\ ~pre.connected
    /\ call.conn = "ConnectionRefusedError"
    /\ call.kind = "return"
    /\ call.val[2] = "error in connection"

(* C4: login on a session that is not connected first attempts connect;    *)
(* when the session is or becomes connected it sends exactly one message   *)
(* "<mode>,,<room>,,<username>" and then reads exactly one reply, and when *)
(* the auto-connect fails it sends nothing and reads nothing.              *)
C4_LoginSendsOnceThenReadsOnce ==
    call.op = "login" =>
        LET msg == Join(<<call.entry, call.room, call.user>>, <<",", ",">>)
        IN  /\ pre.connected => call.io = <<IoSend(msg), IoRecv>>
            /\ (~pre.connected /\ connected) =>
                   call.io = <<IoConnect, IoSend(msg), IoRecv>>
            /\ (~pre.connected /\ ~connected) => call.io = <<IoConnect>>

(* C4 witness: a login on an unconnected session has connected, sent       *)
(* "join,,room1,,bob" and read one reply.                                  *)
C4_Witness ==
    /\ call.op = "login"
    /\ ~pre.connected
    /\ connected
    /\ call.io = << <<"connect">>,
                    <<"send", <<"j", "o", "i", "n", ",", ",",
                                "r", "o", "o", "m", "1", ",", ",",
                                "b", "o", "b">> >>,
                    <<"recv">> >>

(* C5: connect is idempotent: on a session that is already connected it is *)
(* a no-op (no second connection attempt, no error, state unchanged).      *)
C5_ConnectIdempotent ==
    (call.op = "connect" /\ pre.connected) =>
        /\ call.io = <<>>
        /\ call.kind = "return"
        /\ Attrs = pre

(* C6: when the reliable channel cannot be established, connect reports    *)
(* the failure to its caller as False instead of raising, and the          *)
(* connection-state flag stays False.                                      *)
C6_ConnectFailureReturnsFalse ==
    (call.op = "connect" /\ ~pre.connected /\ call.conn # "ok") =>
        /\ call.kind = "return"
        /\ call.val = FALSE
        /\ ~connected

(* C7: await_response on a message whose first field is "Start" and whose  *)
(* second and third fields are integers stores the second as the port and  *)
(* the third as the secret, as integers, and returns the field list;       *)
(* "Start,,<p>,,<s>" sets port p and secret s, as "Start,,5005,,42" sets   *)
(* 5005 and 42.                                                            *)
C7_StartStoresPortAndSecret ==
    (call.op = "await_response" /\ call.rx.exc = "none") =>
        /\ \A p \in Ports, s \in Secrets :
              call.rx.data = START \o <<",", ",">> \o StrOf(p)
                                   \o <<",", ",">> \o StrOf(s)
              => /\ game_port = <<p>>
                 /\ udp_password = <<s>>
                 /\ call.kind = "return"
                 /\ call.val = <<START, StrOf(p), StrOf(s)>>
        /\ LET f == Split(call.rx.data, <<",", ",">>)
           IN  (/\ Decodable(call.rx.data)
                /\ f[1] = START
                /\ Len(f) >= 3
                /\ IsInt(f[2])
                /\ IsInt(f[3]))
               => /\ game_port = <<IntOf(f[2])>>
                  /\ udp_password = <<IntOf(f[3])>>
                  /\ call.kind = "return"
                  /\ Join(call.val, <<",", ",">>) = call.rx.data

(* C7 witness (scenario C): "Start,,5005,,42" has been received; the port  *)
(* is 5005, the secret 42.                                                 *)
C7_Witness ==
    /\ call.op = "await_response"
    /\ call.rx = [exc |-> "none",
                  data |-> <<"S", "t", "a", "r", "t", ",", ",",
                             "5", "0", "0", "5", ",", ",", "4", "2">>]
    /\ call.kind = "return"
    /\ call.val = << <<"S", "t", "a", "r", "t">>,
                     <<"5", "0", "0", "5">>, <<"4", "2">> >>
    /\ game_port = <<5005>>
    /\ udp_password = <<42>>

(* C8: await_response on a message whose first field is not "Start"        *)
(* returns the message's fields unmodified and leaves the port, the        *)
(* secret, the username and the connection flag unchanged.                 *)
C8_OtherMessageLeavesSession ==
    (/\ call.op = "await_response"
     /\ call.rx.exc = "none"
     /\ Decodable(call.rx.data)
     /\ Split(call.rx.data, <<",", ",">>)[1] # START)
    => /\ call.kind = "return"
       /\ Join(call.val, <<",", ",">>) = call.rx.data
       /\ \A i \in 1..Len(call.val) :
             \A j \in 1..(Len(call.val[i]) - 1) :
                ~(call.val[i][j] = "," /\ call.val[i][j + 1] = ",")
       /\ Attrs = pre

(* C8 witness: "Started,,5006,,43" has been received by a session that had *)
(* stored port 5005 and secret 42, and they are still stored.              *)
C8_Witness ==
    /\ call.op = "await_response"
    /\ call.rx = [exc |-> "none",
                  data |-> <<"S", "t", "a", "r", "t", "e", "d", ",", ",",
                             "5", "0", "0", "6", ",", ",", "4", "3">>]
    /\ call.kind = "return"
    /\ pre.game_port = <<5005>>
    /\ game_port = <<5005>>
    /\ udp_password = <<42>>

(* The ways the peer ends the reliable channel under a blocked recv: an    *)
(* abort, a reset, or an orderly close (recv returns no bytes).            *)
PeerEndedChannel(rx) ==
    \/ rx.exc \in {"ConnectionAbortedError", "ConnectionResetError"}
    \/ rx.exc = "none" /\ rx.data = <<>>

(* C9: when the peer ends the reliable channel while await_response waits, *)
(* it does not propagate an error: it returns the sentinel [False], and    *)
(* the port and the secret are unchanged.                                  *)
C9_ChannelClosedReturnsSentinel ==
    (call.op = "await_response" /\ pre.connected /\ PeerEndedChannel(call.rx)) =>
        /\ call.kind = "sentinel"
        /\ game_port = pre.game_port
        /\ udp_password = pre.udp_password

(* C10: the secret and the port are set once: once stored, no call and no  *)
(* inbound message changes them.                                           *)
C10_SecretAndPortSetOnce ==
    /\ pre.game_port # None => game_port = pre.game_port
    /\ pre.udp_password # None => udp_password = pre.udp_password

-----------------------------------------------------------------------------
(* Bytes.  A byte string is a sequence of bytes; a byte is written as the  *)
(* ASCII character it prints as, and as "xHH" when it has none (and for    *)
(* the quotation mark, the backslash and the grave accent).  The text of   *)
(* the model is ASCII, which str.encode() leaves byte for byte.            *)

ByteChars ==
    <<"x00", "x01", "x02", "x03", "x04", "x05", "x06", "x07",
      "x08", "\t", "\n", "x0B", "x0C", "x0D", "x0E", "x0F",
      "x10", "x11", "x12", "x13", "x14", "x15", "x16", "x17",
      "x18", "x19", "x1A", "x1B", "x1C", "x1D", "x1E", "x1F",
      " ", "!", "x22", "#", "$", "%", "&", "'",
      "(", ")", "*", "+", ",", "-", ".", "/",
      "0", "1", "2", "3", "4", "5", "6", "7",
      "8", "9", ":", ";", "<", "=", ">", "?",
      "@", "A", "B", "C", "D", "E", "F", "G",
      "H", "I", "J", "K", "L", "M", "N", "O",
      "P", "Q", "R", "S", "T", "U", "V", "W",
      "X", "Y", "Z", "[", "x5C", "]", "^", "_",
      "x60", "a", "b", "c", "d", "e", "f", "g",
      "h", "i", "j", "k", "l", "m", "n", "o",
      "p", "q", "r", "s", "t", "u", "v", "w",
      "x", "y", "z", "{", "|", "}", "~", "x7F",
      "x80", "x81", "x82", "x83", "x84", "x85", "x86", "x87",
      "x88", "x89", "x8A", "x8B", "x8C", "x8D", "x8E", "x8F",
      "x90", "x91", "x92", "x93", "x94", "x95", "x96", "x97",
      "x98", "x99", "x9A", "x9B", "x9C", "x9D", "x9E", "x9F",
      "xA0", "xA1", "xA2", "xA3", "xA4", "xA5", "xA6", "xA7",
      "xA8", "xA9", "xAA", "xAB", "xAC", "xAD", "xAE", "xAF",
      "xB0", "xB1", "xB2", "xB3", "xB4", "xB5", "xB6", "xB7",
      "xB8", "xB9", "xBA", "xBB", "xBC", "xBD", "xBE", "xBF",
      "xC0", "xC1", "xC2", "xC3", "xC4", "xC5", "xC6", "xC7",
      "xC8", "xC9", "xCA", "xCB", "xCC", "xCD", "xCE", "xCF",
      "xD0", "xD1", "xD2", "xD3", "xD4", "xD5", "xD6", "xD7",
      "xD8", "xD9", "xDA", "xDB", "xDC", "xDD", "xDE", "xDF",
      "xE0", "xE1", "xE2", "xE3", "xE4", "xE5", "xE6", "xE7",
      "xE8", "xE9", "xEA", "xEB", "xEC", "xED", "xEE", "xEF",
      "xF0", "xF1", "xF2", "xF3", "xF4", "xF5", "xF6", "xF7",
      "xF8", "xF9", "xFA", "xFB", "xFC", "xFD", "xFE", "xFF" >>

Byte(n) == ByteChars[n + 1]

ByteVal(c) == (CHOOSE i \in 1..256 : ByteChars[i] = c) - 1

(* The low `width` bytes of n, least significant first. *)
RECURSIVE LittleEndian(_, _)
LittleEndian(n, width) ==
    IF width = 0 THEN <<>>
    ELSE <<Byte(n % 256)>> \o LittleEndian(n \div 256, width - 1)

RECURSIVE FromLittleEndian(_)
FromLittleEndian(b) ==
    IF b = <<>> THEN 0
    ELSE ByteVal(b[1]) + 256 * FromLittleEndian(Tail(b))

(* A signed 32-bit integer from its four bytes. *)
FromSigned32(b) ==
    LET high == ByteVal(b[4])
    IN  FromLittleEndian(SubSeq(b, 1, 3))
        + 16777216 * (IF high >= 128 THEN high - 256 ELSE high)

RECURSIVE Concat(_)
Concat(parts) ==
    IF parts = <<>> THEN <<>> ELSE parts[1] \o Concat(Tail(parts))

(* sub occurs in s *)
Contains(s, sub) ==
    \E i \in 1..(Len(s) - Len(sub) + 1) : SubSeq(s, i, i + Len(sub) - 1) = sub

-----------------------------------------------------------------------------
(* The values the client pickles: None, integers, strings and lists.  Each *)
(* carries its type, as a Python object does.                              *)

PyNone == <<"none">>
PyInt(n) == <<"int", n>>
PyStr(s) == <<"str", s>>
PyList(xs) == <<"list", xs>>

(* An attribute of the Pipe as a Python value. *)
PyOfInt(attr) == IF attr = None THEN PyNone ELSE PyInt(attr[1])
PyOfStr(attr) == IF attr = None THEN PyNone ELSE PyStr(attr[1])

(* The opcodes of the pickle format that lists of such values use. *)
PROTO == "x80"
FRAME == "x95"
EMPTY_LIST == "]"
MEMOIZE == "x94"
MARK == "("
APPEND == "a"
APPENDS == "e"
STOP == "."
NONE == "N"
BININT1 == "K"
BININT2 == "M"
BININT == "J"
SHORT_BINUNICODE == "x8C"

(* pickle.dumps of one item of the list: the smallest integer opcode that  *)
(* holds the number (32-bit numbers here), and a length-prefixed string    *)
(* that is then memoized.  The characters of a string are written as they  *)
(* are: nothing is escaped.                                                *)
DumpsItem(v) ==
    CASE v[1] = "none" -> <<NONE>>
      [] v[1] = "int" ->
            IF v[2] >= 0 /\ v[2] < 256 THEN <<BININT1, Byte(v[2])>>
            ELSE IF v[2] >= 0 /\ v[2] < 65536
            THEN <<BININT2>> \o LittleEndian(v[2], 2)
            ELSE <<BININT>> \o LittleEndian(v[2] % 16777216, 3)
                            \o <<Byte((v[2] \div 16777216) % 256)>>
      [] v[1] = "str" ->
            <<SHORT_BINUNICODE, Byte(Len(v[2]))>> \o v[2] \o <<MEMOIZE>>

(* pickle.dumps(items) for a list, at protocol 4: header, frame, the empty *)
(* list, then its items between MARK and APPENDS (one item: APPEND).  The  *)
(* strings of one list are distinct objects, so none is written as a       *)
(* reference to an earlier one.                                            *)
Dumps(items) ==
    LET inner == Concat([i \in 1..Len(items) |-> DumpsItem(items[i])])
        body == <<EMPTY_LIST, MEMOIZE>>
                \o (IF Len(items) = 0 THEN <<>>
                    ELSE IF Len(items) = 1 THEN inner \o <<APPEND>>
                    ELSE <<MARK>> \o inner \o <<APPENDS>>)
                \o <<STOP>>
    IN  <<PROTO, Byte(4)>>
        \o (IF Len(body) >= 4
            THEN <<FRAME>> \o LittleEndian(Len(body), 8)
            ELSE <<>>)
        \o body

(* pickle.loads, as the stack machine it is.  The stack holds values and   *)
(* marks; the outcome is the value on top at STOP, or the exception.       *)
(* Running out of input where an opcode should be is EOFError; running out *)
(* inside an opcode's operand is UnpicklingError, as is a byte that is no  *)
(* opcode.  The byte strings of the model hold no opcodes other than the   *)
(* ones listed above, except inside strings.  Bytes after STOP are not     *)
(* read.                                                                   *)
Mark == <<"mark">>

LoadOk(v) == <<"ok", v>>
LoadErr(e) == <<"raise", e>>

(* The position of the topmost mark of the stack, 0 when it has none. *)
TopMark(stack) ==
    IF \E i \in 1..Len(stack) : stack[i] = Mark
    THEN CHOOSE i \in 1..Len(stack) :
            /\ stack[i] = Mark
            /\ \A j \in (i + 1)..Len(stack) : stack[j] # Mark
    ELSE 0

(* The frame's length does not fit the bytes that follow it. *)
FrameTruncated(rest) ==
    \/ Len(rest) < 8
    \/ \E i \in 5..8 : rest[i] # Byte(0)
    \/ ByteVal(rest[4]) >= 128
    \/ FromLittleEndian(SubSeq(rest, 1, 4)) > Len(rest) - 8

RECURSIVE Unpickle(_, _)
Unpickle(b, stack) ==
    IF b = <<>> THEN LoadErr("EOFError")
    ELSE
    LET op == b[1]
        rest == Tail(b)
        n == Len(stack)
        Skip(k) == SubSeq(rest, k + 1, Len(rest))
        Push(v, k) == Unpickle(Skip(k), Append(stack, v))
        Underflow == n = 0 \/ stack[n] = Mark
    IN  CASE op = PROTO ->
                IF rest = <<>> THEN LoadErr("UnpicklingError")
                ELSE IF ByteVal(rest[1]) > 5 THEN LoadErr("ValueError")
                ELSE Unpickle(Skip(1), stack)
          [] op = FRAME ->
                IF FrameTruncated(rest) THEN LoadErr("UnpicklingError")
                ELSE Unpickle(Skip(8), stack)
          [] op = EMPTY_LIST -> Push(PyList(<<>>), 0)
          [] op = MEMOIZE ->
                IF Underflow THEN LoadErr("UnpicklingError")
                ELSE Unpickle(rest, stack)
          [] op = MARK -> Push(Mark, 0)
          [] op = NONE -> Push(PyNone, 0)
          [] op = BININT1 ->
                IF Len(rest) < 1 THEN LoadErr("UnpicklingError")
                ELSE Push(PyInt(ByteVal(rest[1])), 1)
          [] op = BININT2 ->
                IF Len(rest) < 2 THEN LoadErr("UnpicklingError")
                ELSE Push(PyInt(FromLittleEndian(SubSeq(rest, 1, 2))), 2)
          [] op = BININT ->
                IF Len(rest) < 4 THEN LoadErr("UnpicklingError")
                ELSE Push(PyInt(FromSigned32(SubSeq(rest, 1, 4))), 4)
          [] op = SHORT_BINUNICODE ->
                IF Len(rest) < 1 \/ Len(rest) < 1 + ByteVal(rest[1])
                THEN LoadErr("UnpicklingError")
                ELSE LET s == SubSeq(rest, 2, 1 + ByteVal(rest[1]))
                     IN  IF ~Decodable(s) THEN LoadErr("UnicodeDecodeError")
                         ELSE Push(PyStr(s), 1 + Len(s))
          [] op = APPEND ->
                IF n < 2 \/ stack[n] = Mark \/ stack[n - 1] = Mark
                THEN LoadErr("UnpicklingError")
                ELSE IF stack[n - 1][1] # "list" THEN LoadErr("AttributeError")
                ELSE Unpickle(rest,
                        Append(SubSeq(stack, 1, n - 2),
                               PyList(Append(stack[n - 1][2], stack[n]))))
          [] op = APPENDS ->
                LET m == TopMark(stack)
                IN  IF m = 0 THEN LoadErr("UnpicklingError")
                    ELSE IF m = 1 \/ stack[m - 1] = Mark
                    THEN LoadErr("UnpicklingError")
                    ELSE IF stack[m - 1][1] # "list"
                    THEN LoadErr("AttributeError")
                    ELSE Unpickle(rest,
                            Append(SubSeq(stack, 1, m - 2),
                                   PyList(stack[m - 1][2]
                                          \o SubSeq(stack, m + 1, n))))
          [] op = STOP ->
                IF Underflow THEN LoadErr("UnpicklingError")
                ELSE LoadOk(stack[n])
          [] OTHER -> LoadErr("UnpicklingError")

Loads(b) == Unpickle(b, <<>>)

-----------------------------------------------------------------------------
(* transport: the datagram round trip. *)

OUTER_DELIM == <<"|", "|", "|", "|">>
INNER_DELIM == <<"|", "|">>

(* The host the Pipe was constructed for. *)
Server == <<"h", "o", "s", "t">>

(* Faulty variant: the username is put before the secret. *)
EnvelopeUserFirst(game_data) ==
    <<PyOfStr(username), PyOfInt(udp_password)>> \o game_data

(* [self.udp_password, self.username] + game_data *)
Envelope(game_data) ==
    <<PyOfInt(udp_password), PyOfStr(username)>> \o game_data

(* dumps(game_data) + b"||||" *)
Encode(values) == Dumps(values) \o OUTER_DELIM

(* data.split(b"||||"), the test len(data) > 1, and data[0].split(b"||"):  *)
(* the payloads of the first frame, or None when the datagram holds no     *)
(* OUTER_DELIM.                                                            *)
Frames(d) == Split(d, OUTER_DELIM)

HasBatch(frames) == Len(frames) > 1

(* Faulty variant: the payloads are taken from the second frame. *)
PayloadsOfSecondFrame(frames) == Split(frames[2], INNER_DELIM)

Payloads(frames) == Split(frames[1], INNER_DELIM)

Unpack(d) ==
    IF HasBatch(Frames(d)) THEN Some(Payloads(Frames(d))) ELSE None

(* [loads(game) for game in data]: the values, or the exception of the     *)
(* first payload that loads rejects.                                       *)
RECURSIVE DecodeAll(_)
DecodeAll(pieces) ==
    IF pieces = <<>> THEN LoadOk(<<>>)
    ELSE LET first == Loads(pieces[1])
             others == DecodeAll(Tail(pieces))
         IN  IF first[1] # "ok" THEN first
             ELSE IF others[1] # "ok" THEN others
             ELSE LoadOk(<<first[2]>> \o others[2])

(* What transport does with the datagram it received. *)
TransportReply(d) ==
    LET u == Unpack(d)
    IN  IF u = None
        THEN [kind |-> "return", val |-> <<FALSE, PyNone>>, exc |-> "none"]
        ELSE LET r == DecodeAll(u[1])
             IN  IF r[1] = "ok"
                 THEN [kind |-> "return", val |-> <<TRUE, PyList(r[2])>>,
                       exc |-> "none"]
                 ELSE [kind |-> "raise", val |-> None, exc |-> r[2]]

(* The socket calls transport makes, in order. *)
IoSendTo(d, addr) == <<"sendto", d, addr>>
IoRecvFrom == <<"recvfrom">>

(* Faulty variant: the datagram is sent again after the reply was read. *)
TransportIoResend(d, addr) ==
    <<IoSendTo(d, addr), IoRecvFrom, IoSendTo(d, addr)>>

(* One sendto, then one recvfrom. *)
TransportIo(d, addr) == <<IoSendTo(d, addr), IoRecvFrom>>

(* The record kept of a transport call: its argument, how sendto (tx) and  *)
(* recvfrom (rx) ended, the socket calls it made, and its result.          *)
TransportCall(game_data, tx, rx, io, kind, val, exc) ==
    [op |-> "transport", game_data |-> game_data, tx |-> tx, rx |-> rx,
     io |-> io, kind |-> kind, val |-> val, exc |-> exc]

(* What the caller passes as game_data. *)
GameData ==
    { <<>>,
      <<PyStr(<<"p", "r", "e", "s", "s">>), PyInt(5)>>,
      <<PyInt(300), PyInt(70000), PyStr(<<"|", "x">>)>> }

(* The batches a peer packs into its reply. *)
Update1 == <<PyInt(0), PyInt(10), PyInt(20)>>
Update2 == <<PyStr(<<":", "s", "e", "r", "v", "e", "r", ":">>), PyInt(7)>>
Update3 == <<PyStr(<<"a", "|", "|", "b">>), PyInt(1)>>

(* What recvfrom may return: well-formed batches of one and two payloads,  *)
(* the datagram that packs no payload, datagrams without OUTER_DELIM, a    *)
(* payload that is no pickle, a payload whose string holds INNER_DELIM,    *)
(* and two frames in one datagram.                                         *)
Datagrams ==
    { Dumps(Update1) \o OUTER_DELIM,
      Dumps(Update1) \o INNER_DELIM \o Dumps(Update2) \o OUTER_DELIM,
      OUTER_DELIM,
      <<>>,
      Dumps(Update1),
      <<"?">> \o OUTER_DELIM,
      Dumps(Update3) \o OUTER_DELIM,
      Dumps(Update2) \o OUTER_DELIM \o Dumps(Update1) \o OUTER_DELIM }

(* sendto on Pipe.udp: a port that is None is rejected with TypeError; the *)
(* network may refuse the datagram with OSError.                           *)
SendToOutcomes == IF game_port = None THEN {"TypeError"} ELSE {"ok", "OSError"}

(* recvfrom on Pipe.udp: the datagram, within its budget, or the exception *)
(* it raises.                                                              *)
RecvFromOutcomes(tx) ==
    IF tx = "ok"
    THEN [exc : {"none"}, data : Datagrams] \cup [exc : {"OSError"}, data : {<<>>}]
    ELSE {NoRecv}

Transport(game_data, tx, rx) ==
    /\ tx \in SendToOutcomes
    /\ rx \in RecvFromOutcomes(tx)
    /\ pre' = Attrs
    /\ UNCHANGED <<connected, username, udp_password, game_port, tcp>>
    /\ LET d == Encode(Envelope(game_data))
           addr == <<Server, game_port>>
       IN  IF tx # "ok"
           THEN call' = TransportCall(game_data, tx, rx, <<IoSendTo(d, addr)>>,
                                      "raise", None, tx)
           ELSE IF rx.exc # "none"
           THEN call' = TransportCall(game_data, tx, rx, TransportIo(d, addr),
                                      "raise", None, rx.exc)
           ELSE LET out == TransportReply(rx.data)
                IN  call' = TransportCall(game_data, tx, rx, TransportIo(d, addr),
                                          out.kind, out.val, out.exc)

(* The Pipe in the states a session can have left it in: transport may be  *)
(* called in any of them.  A username is whatever login was given, a port  *)
(* and a secret whatever a start message carried; the port is stored       *)
(* before the secret.                                                      *)
TransportUsers == Users \cup {<<"a", "|", "|", "|", "|", "b">>}

TransportSecrets == Secrets \cup {2088533116}

TransportInit ==
    /\ connected \in BOOLEAN
    /\ tcp = (IF connected THEN "connected" ELSE "unconnected")
    /\ username \in {None} \cup {Some(u) : u \in TransportUsers}
    /\ game_port \in (IF connected THEN {None} \cup {Some(p) : p \in Ports}
                      ELSE {None})
    /\ udp_password \in (IF game_port # None
                         THEN {None} \cup {Some(s) : s \in TransportSecrets}
                         ELSE {None})
    /\ call = Call("init", <<>>, <<>>, <<>>, "unused", NoRecv, <<>>,
                   "return", None, "none")
    /\ pre = Attrs
    /\ DriverIdle /\ CodecIdle /\ BridgeIdle /\ WidgetIdle

TransportNext ==
    \E game_data \in GameData :
       \E tx \in SendToOutcomes :
          \E rx \in RecvFromOutcomes(tx) :
             /\ Transport(game_data, tx, rx)
             /\ UNCHANGED <<driverVars, codecVars, bridgeVars, widgetVars>>

SpecTransport == TransportInit /\ [][TransportNext]_vars

-----------------------------------------------------------------------------
(* Properties of the datagram transport. *)

(* The datagram a transport call handed to sendto, and the payload in it:  *)
(* the datagram without the OUTER_DELIM that transport appended.           *)
SentDatagram == call.io[1][2]

SentPayload == SubSeq(SentDatagram, 1, Len(SentDatagram) - Len(OUTER_DELIM))

(* C12: the payload of every datagram transport sends decodes to the       *)
(* session's secret, then its username, then the caller's fields unchanged *)
(* and in order (an attribute that was never set travels as None), and the *)
(* datagram is addressed to the session's host and datagram port.          *)
C12_EnvelopeAndAddress ==
    (call.op = "transport" /\ call.tx = "ok") =>
        /\ call.io[1][1] = "sendto"
        /\ SentDatagram = SentPayload \o OUTER_DELIM
        /\ Loads(SentPayload)
              = LoadOk(PyList(<<PyOfInt(pre.udp_password),
                                PyOfStr(pre.username)>> \o call.game_data))
        /\ call.io[1][3] = <<Server, pre.game_port>>

(* A datagram was sent by a session that has a secret and a username, with *)
(* fields of the caller's in it.                                           *)
C12_Witness ==
    /\ call.op = "transport"
    /\ call.tx = "ok"
    /\ pre.udp_password # None
    /\ pre.username # None
    /\ call.game_data # <<>>

(* C13: a transport call makes one sendto and then, when the datagram was  *)
(* sent, one recvfrom, and no other socket call: whatever the reply holds, *)
(* and also when the call ends with an exception.                          *)
C13_OneSendThenOneReceive ==
    call.op = "transport" =>
        /\ call.io[1][1] = "sendto"
        /\ call.tx # "ok" => Len(call.io) = 1
        /\ call.tx = "ok" => (Len(call.io) = 2 /\ call.io[2] = IoRecvFrom)

(* The reply held a second frame, or a payload that could not be decoded. *)
C13_Witness ==
    /\ call.op = "transport"
    /\ call.rx.exc = "none"
    /\ \/ Len(Frames(call.rx.data)) > 2
       \/ call.kind = "raise"

(* C14: a reply that packs no payload, only the terminating OUTER_DELIM,   *)
(* makes transport return (False, None).                                   *)
C14_EmptyBatchReturnsFalseNone ==
    (call.op = "transport" /\ call.rx.exc = "none"
        /\ call.rx.data = OUTER_DELIM) =>
        /\ call.kind = "return"
        /\ call.val = <<FALSE, PyNone>>

(* C17: the payload transport encodes holds no OUTER_DELIM, so that the    *)
(* datagram unpacks to that one payload.                                   *)
C17_PayloadHasNoOuterDelim ==
    (call.op = "transport" /\ call.tx = "ok") =>
        /\ ~Contains(SentPayload, OUTER_DELIM)
        /\ Unpack(SentDatagram) = Some(<<SentPayload>>)

-----------------------------------------------------------------------------
(* The frame codec on its own: a batch of payloads is packed into one      *)
(* datagram, and the datagram is unpacked as transport unpacks a reply.    *)

(* Bounds: the payloads of a batch, and the bytes of a payload. *)
MaxBatch == 2
MaxPayloadLen == 2

(* pack: the payloads joined with INNER_DELIM, then OUTER_DELIM once at    *)
(* the end.                                                                *)
Pack(ps) == Join(ps, INNER_DELIM) \o OUTER_DELIM

(* Byte strings of up to n bytes over an alphabet that holds the          *)
(* delimiters' byte, and batches of them.                                  *)
BytesUpTo(n) == UNION {[1..k -> {"a", "|"}] : k \in 0..n}

Batches == UNION {[1..k -> BytesUpTo(MaxPayloadLen)] : k \in 0..MaxBatch}

CodecInit ==
    /\ payloads \in Batches
    /\ datagram = None
    /\ batch = None
    /\ SessionInit /\ DriverIdle /\ BridgeIdle /\ WidgetIdle

DoPack ==
    /\ datagram = None
    /\ datagram' = Some(Pack(payloads))
    /\ UNCHANGED <<payloads, batch>>

DoUnpack ==
    /\ datagram # None
    /\ batch = None
    /\ batch' = Unpack(datagram[1])
    /\ UNCHANGED <<payloads, datagram>>

CodecNext ==
    \/ DoPack /\ UNCHANGED <<sessionVars, driverVars, bridgeVars, widgetVars>>
    \/ DoUnpack /\ UNCHANGED <<sessionVars, driverVars, bridgeVars, widgetVars>>

SpecCodec == CodecInit /\ [][CodecNext]_vars

-----------------------------------------------------------------------------
(* Properties of the frame codec. *)

(* C15: packing no payloads and unpacking the datagram gives the empty     *)
(* batch.                                                                  *)
C15_EmptyBatchRoundTrip ==
    (payloads = <<>> /\ batch # None) => batch = Some(<<>>)

(* No payload of the batch holds INNER_DELIM (and so none holds            *)
(* OUTER_DELIM).                                                           *)
DelimiterFree(ps) == \A i \in 1..Len(ps) : ~Contains(ps[i], INNER_DELIM)

(* C16: a batch of one or more payloads that hold neither delimiter is    *)
(* unpacked from its datagram as the same payloads in the same order.      *)
C16_PackUnpackInverse ==
    (payloads # <<>> /\ DelimiterFree(payloads) /\ batch # None) =>
        batch = Some(payloads)

-----------------------------------------------------------------------------
(* The driver at the end of test2.py: one login, whose result is printed   *)
(* and not looked at, then await_response in a loop until a packet's first *)
(* field is "Start", then transport for every line typed.  An exception    *)
(* that no method catches ends the program.                                *)

DriverRoom == <<"g", "a", "m", "e", "3">>
DriverUser == <<"P", "a", "n", "c", "h", "o">>

(* What the user may type at the prompt. *)
InputTexts == {<<"5">>, <<"4", "2">>, <<"u", "p">>}

PRESS == <<"p", "r", "e", "s", "s">>

DriverInit ==
    /\ SessionInit
    /\ pc = "login"
    /\ login_printed = None
    /\ CodecIdle /\ BridgeIdle /\ WidgetIdle

(* print(pl.login(entry="join", room_name="game3", username="Pancho")) *)
DriverLogin ==
    /\ pc = "login"
    /\ \E co \in LoginConnectOutcomes :
          \E rx \in LoginRecvOutcomes(co) :
             Login(JOIN, DriverRoom, DriverUser, co, rx)
    /\ IF call'.kind = "raise"
       THEN pc' = "crashed" /\ UNCHANGED login_printed
       ELSE pc' = "await" /\ login_printed' = Some(call'.val)

(* Faulty variant: every packet is taken for the start message. *)
PacketIsStartAlways(packet) == TRUE

(* packet[0] == "Start" *)
PacketIsStart(packet) == packet[1] = START

(* packet = pl.await_response(); print(packet); if packet[0] == "Start" *)
DriverAwait ==
    /\ pc = "await"
    /\ \E rx \in RecvOutcomes(tcp, Messages) : AwaitResponse(rx)
    /\ pc' = (IF call'.kind = "raise" THEN "crashed"
              ELSE IF call'.kind = "return" /\ PacketIsStart(call'.val) THEN "input"
              ELSE "await")
    /\ UNCHANGED login_printed

(* text = input(":::> "); print(pl.transport(["press", int(text)])) *)
DriverInput ==
    /\ pc = "input"
    /\ \E text \in InputTexts :
          IF ~IsInt(text)
          THEN pc' = "crashed" /\ UNCHANGED sessionVars
          ELSE /\ \E tx \in SendToOutcomes :
                     \E rx \in RecvFromOutcomes(tx) :
                        Transport(<<PyStr(PRESS), PyInt(IntOf(text))>>, tx, rx)
               /\ pc' = (IF call'.kind = "raise" THEN "crashed" ELSE "input")
    /\ UNCHANGED login_printed

DriverNext ==
    \/ DriverLogin /\ UNCHANGED <<codecVars, bridgeVars, widgetVars>>
    \/ DriverAwait /\ UNCHANGED <<codecVars, bridgeVars, widgetVars>>
    \/ DriverInput /\ UNCHANGED <<codecVars, bridgeVars, widgetVars>>

SpecDriver == DriverInit /\ [][DriverNext]_vars

(* C11: the session is ACTIVE, with a port and a secret stored, only after *)
(* a connect succeeded and a login returned ok = true.                     *)
C11_ActiveOnlyAfterLoginOk ==
    (game_port # None /\ udp_password # None) =>
        /\ connected
        /\ login_printed # None
        /\ login_printed[1][1] = TRUE

-----------------------------------------------------------------------------
(* The bridge.  networking runs in a process of its own and the render     *)
(* loop calls stream on a timer, so their queue operations interleave.     *)
(* The queues are FIFO.  An update is named by its number in the order of  *)
(* enqueueing, so a larger number is a newer update.                       *)

(* Bound: the updates the render loop enqueues. *)
MaxUpdates == 4

(* Faulty variant: get takes the newest entry. *)
QueueHeadNewest(q) == q[Len(q)]

(* Queue.get returns the oldest entry. *)
QueueHead(q) == q[1]

(* Faulty variant: get leaves the entry in the queue. *)
QueueRestKeep(q) == q

(* Queue.get removes the entry it returns. *)
QueueRest(q) == Tail(q)

(* Faulty variant: every entry that qsize counted is discarded. *)
DropCountAll(n) == n

(* Faulty variant: all entries but one are discarded. *)
DropCountAllButOne(n) == IF n > 1 THEN n - 1 ELSE 0

(* The iterations of `for _ in range(items_no - 2)`. *)
DropCount(n) == IF n > 2 THEN n - 2 ELSE 0

SERVER_TAG == <<":", "s", "e", "r", "v", "e", "r", ":">>

(* What udp.transport returns to the bridge: (False, None), or (True,      *)
(* batch) with the values it decoded: a wall from the server, a move of    *)
(* player 2 that comes with no wall height, a batch that begins with 0,    *)
(* and a batch of one payload that is itself a list.  It may also raise,   *)
(* which ends the process: networking catches nothing.                     *)
BridgeResults ==
    { <<FALSE, PyNone>>,
      <<TRUE, PyList(<<PyStr(SERVER_TAG), PyInt(300)>>)>>,
      <<TRUE, PyList(<<PyInt(1), PyInt(640), PyInt(480), PyInt(0)>>)>>,
      <<TRUE, PyList(<<PyInt(0), PyInt(640), PyInt(480), PyInt(200)>>)>>,
      <<TRUE, PyList(<<PyList(<<PyInt(0), PyInt(10), PyInt(20)>>)>>)>> }

(* The three players where setup puts them. *)
InitialPlayers ==
    << <<PyInt(100), PyInt(100)>>, <<PyInt(500), PyInt(100)>>,
       <<PyInt(1000), PyInt(100)>> >>

(* The heights random.randint(10, 650) may give a wall. *)
RandomWalls == {10, 650}

(* Python's truth value of a value. *)
Truthy(v) ==
    CASE v[1] = "none" -> FALSE
      [] v[1] = "int" -> v[2] # 0
      [] v[1] = "str" -> v[2] # <<>>
      [] v[1] = "list" -> v[2] # <<>>

(* int(data[1][0]) + 1 and the attribute player<n> it names. *)
PlayerOf(v) == (IF v[1] = "int" THEN v[2] ELSE IntOf(v[2])) + 1

PlayerError(v) ==
    IF v[1] = "list" THEN "TypeError"
    ELSE IF v[1] = "str" /\ ~IsInt(v[2]) THEN "ValueError"
    ELSE IF PlayerOf(v) \notin 1..3 THEN "AttributeError"
    ELSE "none"

(* add_wall(pos): a height that is not given (or is 0) is drawn at random. *)
AddWall(walls, pos, rnd) ==
    Append(walls, IF Truthy(pos) THEN pos ELSE PyInt(rnd))

(* Faulty variant: the result's flag is not looked at. *)
StreamTakesBatchAlways(d) == TRUE

(* if data[0] *)
StreamTakesBatch(d) == d[1]

(* What stream does with the result it read: the players and walls after   *)
(* it, and the exception it raises if any.  The right-hand side of the     *)
(* position assignment is evaluated before its target.                     *)
StreamHandle(d, rnd) ==
    LET same == [players |-> players, wall_list |-> wall_list, exc |-> "none"]
        Raise(e) == [same EXCEPT !.exc = e]
    IN  IF ~StreamTakesBatch(d) THEN same
        ELSE IF d[2][1] # "list" THEN Raise("TypeError")
        ELSE LET games == d[2][2]
             IN  IF games = <<>> THEN Raise("IndexError")
                 ELSE IF ~Truthy(games[1]) THEN same
                 ELSE IF games[1] = PyStr(SERVER_TAG)
                 THEN IF Len(games) < 2 THEN Raise("IndexError")
                      ELSE [same EXCEPT
                               !.wall_list = AddWall(wall_list, games[2], rnd)]
                 ELSE IF Len(games) < 3 THEN Raise("IndexError")
                 ELSE IF PlayerError(games[1]) # "none"
                 THEN Raise(PlayerError(games[1]))
                 ELSE [players |->
                          [players EXCEPT
                              ![PlayerOf(games[1])] = <<games[2], games[3]>>],
                       wall_list |->
                          AddWall(wall_list, games[Len(games)], rnd),
                       exc |-> "none"]

BridgeInit ==
    /\ forward = <<>>
    /\ feedback = <<>>
    /\ bpc = "qsize"
    /\ items_no = 0
    /\ todo = 0
    /\ data = None
    /\ result = None
    /\ rpc = "put"
    /\ polled = None
    /\ players = InitialPlayers
    /\ wall_list = <<>>
    /\ stop = FALSE
    /\ hist = NoHist
    /\ SessionInit /\ DriverIdle /\ CodecIdle /\ WidgetIdle

(* items_no = forward.qsize() *)
BridgeQsize ==
    /\ bpc = "qsize"
    /\ items_no' = Len(forward)
    /\ todo' = DropCount(Len(forward))
    /\ bpc' = (IF DropCount(Len(forward)) > 0 THEN "drop" ELSE "get")
    /\ hist' = [hist EXCEPT !.seen = forward, !.dropped = <<>>, !.sent = <<>>]
    /\ UNCHANGED <<forward, feedback, data, result, rpc, polled, viewVars, stop>>

(* One forward.get() of the for loop: the entry is not kept. *)
BridgeDrop ==
    /\ bpc = "drop"
    /\ forward # <<>>
    /\ forward' = QueueRest(forward)
    /\ todo' = todo - 1
    /\ bpc' = (IF todo = 1 THEN "get" ELSE "drop")
    /\ hist' = [hist EXCEPT !.dropped = Append(@, QueueHead(forward))]
    /\ UNCHANGED <<feedback, items_no, data, result, rpc, polled, viewVars, stop>>

(* data = list(forward.get()): waits while the queue is empty. *)
BridgeGet ==
    /\ bpc = "get"
    /\ forward # <<>>
    /\ data' = Some(QueueHead(forward))
    /\ forward' = QueueRest(forward)
    /\ bpc' = "transport"
    /\ UNCHANGED <<feedback, items_no, todo, result, rpc, polled, viewVars, stop,
                   hist>>

(* udp.transport(data): it returns a result, or raises, or stays in        *)
(* recvfrom when the reply to its datagram never arrives: Pipe.udp is a    *)
(* blocking socket, no timeout is set on it.                               *)
BridgeTransport ==
    /\ bpc = "transport"
    /\ hist' = [hist EXCEPT !.sent = Append(@, data[1]),
                            !.log = Append(@, data[1])]
    /\ \/ \E r \in BridgeResults : result' = Some(r) /\ bpc' = "put"
       \/ result' = None /\ bpc' = "crashed"
       \/ result' = None /\ bpc' = "waiting"
    /\ UNCHANGED <<forward, feedback, items_no, todo, data, rpc, polled, viewVars,
                   stop>>

(* feedback.put(...) *)
BridgePut ==
    /\ bpc = "put"
    /\ feedback' = Append(feedback, result[1])
    /\ result' = None
    /\ bpc' = "qsize"
    /\ UNCHANGED <<forward, items_no, todo, data, rpc, polled, viewVars, stop,
                   hist>>

(* stream: self.forward.put(position) *)
StreamPut ==
    /\ rpc = "put"
    /\ hist.enq < MaxUpdates
    /\ forward' = Append(forward, hist.enq + 1)
    /\ hist' = [hist EXCEPT !.enq = @ + 1]
    /\ rpc' = "poll"
    /\ UNCHANGED <<feedback, bpc, items_no, todo, data, result, polled, viewVars,
                   stop>>

(* Faulty variant: stream reads without testing for emptiness. *)
StreamReadsAlways(q) == TRUE

(* not self.feedback.empty() *)
StreamReads(q) == q # <<>>

(* stream: if not self.feedback.empty(): data = self.feedback.get(), and   *)
(* what follows under it.  Queue.get waits while the queue is empty.  An   *)
(* exception ends the render loop.                                         *)
StreamPoll ==
    /\ rpc = "poll"
    /\ IF StreamReads(feedback)
       THEN /\ feedback # <<>>
            /\ polled' = Some(QueueHead(feedback))
            /\ feedback' = QueueRest(feedback)
            /\ \E rnd \in RandomWalls :
                  LET out == StreamHandle(QueueHead(feedback), rnd)
                  IN  /\ players' = out.players
                      /\ wall_list' = out.wall_list
                      /\ rpc' = (IF out.exc = "none" THEN "put" ELSE "crashed")
       ELSE /\ UNCHANGED <<polled, feedback, viewVars>>
            /\ rpc' = "put"
    /\ UNCHANGED <<forward, bpc, items_no, todo, data, result, stop, hist>>

(* A stop of the bridge is asked for from outside.  networking takes no    *)
(* stop signal and reads none.                                             *)
RequestStop ==
    /\ ~stop
    /\ stop' = TRUE
    /\ UNCHANGED <<forward, feedback, bpc, items_no, todo, data, result, rpc,
                   polled, viewVars, hist>>

BridgeNext ==
    \/ BridgeQsize /\ UNCHANGED <<sessionVars, driverVars, codecVars, widgetVars>>
    \/ BridgeDrop /\ UNCHANGED <<sessionVars, driverVars, codecVars, widgetVars>>
    \/ BridgeGet /\ UNCHANGED <<sessionVars, driverVars, codecVars, widgetVars>>
    \/ BridgeTransport /\ UNCHANGED <<sessionVars, driverVars, codecVars, widgetVars>>
    \/ BridgePut /\ UNCHANGED <<sessionVars, driverVars, codecVars, widgetVars>>
    \/ StreamPut /\ UNCHANGED <<sessionVars, driverVars, codecVars, widgetVars>>
    \/ StreamPoll /\ UNCHANGED <<sessionVars, driverVars, codecVars, widgetVars>>
    \/ RequestStop /\ UNCHANGED <<sessionVars, driverVars, codecVars, widgetVars>>

SpecBridge == BridgeInit /\ [][BridgeNext]_vars

-----------------------------------------------------------------------------
(* Properties of the bridge. *)

(* The cycle has taken the entry it transmits out of the queue. *)
AfterGet ==
    \/ bpc \in {"transport", "waiting", "put", "crashed"}
    \/ bpc = "qsize" /\ hist.sent # <<>>

(* C18: a cycle that found n >= 3 entries discards the n - 2 oldest,       *)
(* hands exactly one entry to transport, the older of the two it kept, and *)
(* leaves the newest of the n at the head of the queue.                    *)
C18_DrainKeepsTwo ==
    (AfterGet /\ items_no >= 3) =>
        /\ hist.dropped = SubSeq(hist.seen, 1, items_no - 2)
        /\ data = Some(hist.seen[items_no - 1])
        /\ forward # <<>>
        /\ forward[1] = hist.seen[items_no]
        /\ hist.sent = (IF bpc = "transport" THEN <<>>
                        ELSE <<hist.seen[items_no - 1]>>)

(* A cycle that found four or more entries has transmitted. *)
C18_Witness ==
    /\ bpc = "put"
    /\ items_no >= 4

(* C19, as stated: no update is handed to transport while a newer update   *)
(* was already in the queue when the cycle looked at it.                   *)
C19_NeverSentWhileNewerQueued ==
    bpc = "transport" =>
        \A i \in 1..Len(hist.seen) : hist.seen[i] <= data[1]

(* C19, amended: every entry the cycle discarded is older than the one it  *)
(* transmits, every entry left in the queue is newer, and of the entries   *)
(* the cycle found exactly one is newer than the transmitted one when it   *)
(* found two or more (none when it found fewer).                           *)
C19_SentIsOlderOfTwoRetained ==
    AfterGet =>
        /\ \A i \in 1..Len(hist.dropped) : hist.dropped[i] < data[1]
        /\ \A i \in 1..Len(forward) : data[1] < forward[i]
        /\ Cardinality({i \in 1..Len(hist.seen) : hist.seen[i] > data[1]})
              = (IF items_no >= 2 THEN 1 ELSE 0)

(* An update is about to be transmitted while the newer one the cycle      *)
(* found is still in the queue.                                            *)
C19_Witness ==
    /\ bpc = "transport"
    /\ items_no >= 2
    /\ forward # <<>>
    /\ hist.dropped # <<>>

(* C20: the feedback queue holds at most one result that the render loop   *)
(* has not read.                                                           *)
C20_FeedbackHoldsAtMostOne == Len(feedback) <= 1

(* The steps of networking, and of stream. *)
BridgeStep ==
    BridgeQsize \/ BridgeDrop \/ BridgeGet \/ BridgeTransport \/ BridgePut

StreamStep == StreamPut \/ StreamPoll

(* C21: the depth of the outgoing queue stays below a bound.  The bound is *)
(* MaxUpdates, whatever its value: nothing but the number of updates the   *)
(* render loop has enqueued limits the depth.                              *)
C21_BacklogStaysBelowBound == Len(forward) < MaxUpdates

(* C23: a transport error does not end networking. *)
C23_BridgeSurvivesTransportError == bpc # "crashed"

(* C29: a cycle that found one or two entries discards nothing and         *)
(* transmits the oldest; a cycle that finds the queue empty has sent       *)
(* nothing and cannot go on until an update is enqueued; and what a cycle  *)
(* hands to transport is one update, taken out of the queue, that the      *)
(* render loop enqueued.                                                   *)
C29_ShallowQueueSendsOldest ==
    /\ (AfterGet /\ items_no \in {1, 2}) =>
          (hist.dropped = <<>> /\ data = Some(hist.seen[1]))
    /\ (bpc = "get" /\ forward = <<>>) =>
          (hist.sent = <<>> /\ ~ENABLED BridgeStep)
    /\ AfterGet =>
          /\ data # None
          /\ data[1] \in 1..hist.enq
          /\ \A i \in 1..Len(forward) : forward[i] # data[1]
          /\ hist.sent \in {<<>>, <<data[1]>>}

(* A cycle that found two entries has transmitted. *)
C29_Witness ==
    /\ bpc = "put"
    /\ items_no = 2

(* C24: when the reply to a cycle's datagram never arrives, the receive    *)
(* still ends: networking, waiting in recvfrom, has a step to take.        *)
C24_LostReplyDoesNotStall == bpc = "waiting" => ENABLED BridgeStep

(* C30: the updates handed to transport, in order, are a subsequence of    *)
(* the updates enqueued: each was enqueued, none is sent twice, and none   *)
(* is sent after a newer one.                                              *)
C30_TransmittedIsSubsequence ==
    /\ \A i \in 1..Len(hist.log) : hist.log[i] \in 1..hist.enq
    /\ \A i \in 1..(Len(hist.log) - 1) : hist.log[i] < hist.log[i + 1]

(* Three updates were transmitted, with one discarded between them. *)
C30_Witness ==
    /\ Len(hist.log) >= 3
    /\ \E i \in 1..(Len(hist.log) - 1) : hist.log[i] + 1 < hist.log[i + 1]

(* C22: stream never waits for the bridge.  Its put on the outgoing queue  *)
(* can always be made (the model stops enqueueing at MaxUpdates), its poll *)
(* of the feedback queue can always be made, and on an empty feedback      *)
(* queue the poll ends with nothing read and nothing changed.              *)
C22_RenderLoopNeverBlocks ==
    /\ (rpc = "put" /\ hist.enq < MaxUpdates) => ENABLED StreamPut
    /\ rpc = "poll" => ENABLED StreamPoll
    /\ (rpc = "poll" /\ feedback = <<>>) =>
          ENABLED (StreamPoll /\ UNCHANGED <<polled, feedback, viewVars>>)

(* stream polls an empty feedback queue while networking is held up in a   *)
(* round trip and updates are waiting.                                     *)
C22_Witness ==
    /\ rpc = "poll"
    /\ feedback = <<>>
    /\ bpc = "waiting"
    /\ Len(forward) >= 2

(* C25: once a stop has been asked for, networking begins no new cycle. *)
C25_NoNewCycleAfterStop ==
    [][stop => ~(bpc = "qsize" /\ bpc' # "qsize")]_vars

(* C28: a stream call that reads the result (False, None) ends without an  *)
(* exception, moves no player and adds no wall.                            *)
C28_FailedResultChangesNothing ==
    [][(rpc = "poll" /\ rpc' # "poll" /\ feedback # <<>>
          /\ QueueHead(feedback) = <<FALSE, PyNone>>)
       => (rpc' = "put" /\ players' = players /\ wall_list' = wall_list)]_vars

(* stream has read the result (False, None). *)
C28_Witness ==
    /\ rpc = "put"
    /\ polled = Some(<<FALSE, PyNone>>)

-----------------------------------------------------------------------------
(* Properties of the session as the driver and the transport use it. *)

(* C26: every transport call the driver makes finds the port and the       *)
(* secret stored, and the datagram it sends carries that secret to that    *)
(* port.                                                                   *)
C26_TransportOnlyWhenActive ==
    call.op = "transport" =>
        /\ pre.game_port # None
        /\ pre.udp_password # None
        /\ call.tx = "ok" =>
              /\ Loads(SentPayload)[2][2][1] = PyInt(pre.udp_password[1])
              /\ call.io[1][3] = <<Server, pre.game_port>>

(* The driver has sent a datagram. *)
C26_Witness ==
    /\ pc = "input"
    /\ call.op = "transport"
    /\ call.tx = "ok"

(* C27: every payload of a batch that transport returns as (True, batch)   *)
(* carries the session's secret as its first field.                        *)
C27_InboundSecretEnforced ==
    (call.op = "transport" /\ call.kind = "return" /\ call.val[1] = TRUE) =>
        \A i \in 1..Len(call.val[2][2]) :
           LET payload == call.val[2][2][i]
           IN  /\ payload[1] = "list"
               /\ payload[2] # <<>>
               /\ payload[2][1] = PyOfInt(pre.udp_password)

-----------------------------------------------------------------------------
(* The bridge under scheduling: networking is a process of its own whose    *)
(* loop goes on whenever its next statement can run.                        *)
SpecBridgeFair ==
    /\ SpecBridge
    /\ WF_vars(BridgeStep
                  /\ UNCHANGED <<sessionVars, driverVars, codecVars, widgetVars>>)

(* The update that was newest when the cycle called qsize is not among the *)
(* updates the cycle discarded, and no discarded update is the last one    *)
(* enqueued.                                                               *)
NewestSurvivesDiscard ==
    \A i \in 1..Len(hist.dropped) :
       /\ hist.dropped[i] # hist.seen[Len(hist.seen)]
       /\ hist.dropped[i] # hist.enq

(* Update n has been handed to transport. *)
Transmitted(n) == \E i \in 1..Len(hist.log) : hist.log[i] = n

(* The last update the render loop enqueued, if any, has been handed to    *)
(* transport.                                                              *)
LastTransmitted == hist.enq = 0 \/ Transmitted(hist.enq)

(* A round trip did not complete: transport raised or its reply is lost. *)
RoundTripFailed == bpc \in {"crashed", "waiting"}

(* C31: a cycle's discard step never takes the update that was newest when *)
(* the cycle inspected the queue; and once the render loop has stopped     *)
(* enqueuing (it enqueues MaxUpdates updates at most, and may stop at any  *)
(* earlier one), the last update it enqueued is eventually transmitted and *)
(* stays so, unless a round trip fails to complete.                        *)
C31_NewestIsKeptAndSent ==
    /\ []NewestSurvivesDiscard
    /\ (<>RoundTripFailed) \/ <>[]LastTransmitted

(* The last update the render loop enqueued before stopping short of its   *)
(* bound has been transmitted, and an earlier one was discarded.           *)
C31_Witness ==
    /\ hist.enq < MaxUpdates
    /\ Transmitted(hist.enq)
    /\ \E k \in 1..hist.enq : ~Transmitted(k)
    /\ forward = <<>>

-----------------------------------------------------------------------------
(* C32: the port and the secret are both unset or both set. *)
C32_PortAndSecretTogether == (game_port = None) <=> (udp_password = None)

-----------------------------------------------------------------------------
(* C33: the feedback queue never holds more than three unread results. *)
C33_FeedbackAtMostThree == Len(feedback) <= 3

-----------------------------------------------------------------------------
(* The bytes of d before the first occurrence of sep in it (d holds one). *)
BeforeFirst(d, sep) ==
    LET At(k) == SubSeq(d, k, k + Len(sep) - 1) = sep
        first == CHOOSE k \in 1..(Len(d) - Len(sep) + 1) :
                    At(k) /\ \A j \in 1..(k - 1) : ~At(j)
    IN  SubSeq(d, 1, first - 1)

(* C34: when transport returns, it returns True together with a batch of   *)
(* at least one decoded value, the values being those of the payloads      *)
(* found before the first OUTER_DELIM of the reply, or False together with *)
(* None.                                                                   *)
C34_FlagAndBatchAgree ==
    (call.op = "transport" /\ call.kind = "return") =>
        LET ok == call.val[1]
            got == call.val[2]
        IN  /\ ok =>
                 /\ got[1] = "list"
                 /\ got[2] # <<>>
                 /\ Contains(call.rx.data, OUTER_DELIM)
                 /\ DecodeAll(Split(BeforeFirst(call.rx.data, OUTER_DELIM),
                                    INNER_DELIM)) = LoadOk(got[2])
            /\ ~ok => got = PyNone

(* transport has returned a batch from a reply that holds bytes after its  *)
(* first OUTER_DELIM.                                                      *)
C34_Witness ==
    /\ call.op = "transport"
    /\ call.kind = "return"
    /\ call.val[1] = TRUE
    /\ Len(Frames(call.rx.data)) > 2
    /\ Frames(call.rx.data)[2] # <<>>

-----------------------------------------------------------------------------
(* ManaBar (triple_vision/entities/sprites.py).  The fill parts are kept   *)
(* as the slots they were created for: part i is drawn i part widths to    *)
(* the right of the first, wherever the viewport has taken the bar.  Time  *)
(* is counted in ticks.                                                    *)

(* Bounds: the largest max_fillers, and the largest waited_time on_update  *)
(* is followed to.                                                         *)
MaxFillers == 3
MaxWait == 3

(* The idle states of everything but the widgets. *)
NoSession == SessionInit /\ DriverIdle /\ CodecIdle /\ BridgeIdle

(* for i in range(max_fillers): the slots 0 .. max_fillers - 1. *)
FilledSlots(n) == [i \in 1..n |-> i - 1]

(* auto_filling_speed: None, or the ticks between two automatic fills. *)
FillingSpeeds == {None, Some(2)}

(* The delta_time of an on_update call. *)
DeltaTimes == {1, 2}

(* The amounts clear is called with. *)
ClearAmounts == (0 - 1)..(MaxFillers + 1)

(* The attributes the methods read and write.  waited_time is None when    *)
(* the constructor returned before setting it (is_filled false).           *)
ManaAttrs(bar) ==
    [fill_part_list |-> bar.fill_part_list, waited_time |-> bar.waited_time]

(* ManaBar.__init__ *)
ManaBar(max_fillers, is_filled, auto_filling_speed) ==
    [max_fillers |-> max_fillers,
     auto_filling_speed |-> auto_filling_speed,
     fill_part_list |-> IF is_filled THEN FilledSlots(max_fillers) ELSE <<>>,
     waited_time |-> IF is_filled THEN Some(0) ELSE None,
     op |-> "init", arg |-> 0, exc |-> "none",
     pre |-> [fill_part_list |-> <<>>, waited_time |-> None]]

(* Faulty variant: a full bar still takes a part. *)
HasRoomInclusive(parts, max_fillers) == Len(parts) <= max_fillers

(* len(self.fill_part_list) < self.max_fillers *)
HasRoom(parts, max_fillers) == Len(parts) < max_fillers

(* add_filling_part: the new part is created for slot len(fill_part_list). *)
AddFillingPart(parts, max_fillers) ==
    IF HasRoom(parts, max_fillers) THEN Append(parts, Len(parts)) ELSE parts

(* remove_filling_part: pop() of the last part, nothing on an empty list. *)
RemoveFillingPart(parts) ==
    IF Len(parts) = 0 THEN parts ELSE SubSeq(parts, 1, Len(parts) - 1)

(* clear: for _ in range(amount): self.remove_filling_part() *)
RECURSIVE Clear(_, _)
Clear(parts, amount) ==
    IF amount <= 0 THEN parts ELSE Clear(RemoveFillingPart(parts), amount - 1)

ManaCalled(op, arg, exc) ==
    [mana_bar EXCEPT !.op = op, !.arg = arg, !.exc = exc,
                     !.pre = ManaAttrs(mana_bar)]

ManaBarInit ==
    /\ \E m \in 0..MaxFillers, f \in BOOLEAN, sp \in FillingSpeeds :
          mana_bar = ManaBar(m, f, sp)
    /\ my_game = None
    /\ icon_button = None
    /\ soundtrack = None
    /\ NoSession

ManaAdd ==
    /\ mana_bar' =
          [ManaCalled("add_filling_part", 0, "none") EXCEPT
              !.fill_part_list = AddFillingPart(@, mana_bar.max_fillers)]
    /\ UNCHANGED <<my_game, icon_button, soundtrack>>

ManaRemove ==
    /\ mana_bar' =
          [ManaCalled("remove_filling_part", 0, "none") EXCEPT
              !.fill_part_list = RemoveFillingPart(@)]
    /\ UNCHANGED <<my_game, icon_button, soundtrack>>

ManaClear ==
    /\ \E amount \in ClearAmounts :
          mana_bar' =
             [ManaCalled("clear", amount, "none") EXCEPT
                 !.fill_part_list = Clear(@, amount)]
    /\ UNCHANGED <<my_game, icon_button, soundtrack>>

(* on_update: self.waited_time += delta_time raises AttributeError on a    *)
(* bar that was built with is_filled false, which has no waited_time.      *)
ManaOnUpdate ==
    /\ \E dt \in DeltaTimes :
          IF mana_bar.waited_time = None
          THEN mana_bar' = ManaCalled("on_update", dt, "AttributeError")
          ELSE LET waited == mana_bar.waited_time[1] + dt
                   due == /\ mana_bar.auto_filling_speed # None
                          /\ waited >= mana_bar.auto_filling_speed[1]
               IN  /\ waited <= MaxWait
                   /\ mana_bar' =
                         [ManaCalled("on_update", dt, "none") EXCEPT
                             !.fill_part_list =
                                 IF due
                                 THEN AddFillingPart(@, mana_bar.max_fillers)
                                 ELSE @,
                             !.waited_time =
                                 IF due THEN Some(0) ELSE Some(waited)]
    /\ UNCHANGED <<my_game, icon_button, soundtrack>>

ManaBarNext ==
    \/ ManaAdd /\ UNCHANGED <<sessionVars, driverVars, codecVars, bridgeVars>>
    \/ ManaRemove /\ UNCHANGED <<sessionVars, driverVars, codecVars, bridgeVars>>
    \/ ManaClear /\ UNCHANGED <<sessionVars, driverVars, codecVars, bridgeVars>>
    \/ ManaOnUpdate /\ UNCHANGED <<sessionVars, driverVars, codecVars, bridgeVars>>

SpecManaBar == ManaBarInit /\ [][ManaBarNext]_vars

(* C35: the bar holds between 0 and max_fillers fill parts; removing from  *)
(* an empty bar and adding to a full bar change nothing.                   *)
C35_FillPartsWithinBounds ==
    /\ Len(mana_bar.fill_part_list) \in 0..mana_bar.max_fillers
    /\ (mana_bar.op = "remove_filling_part"
           /\ mana_bar.pre.fill_part_list = <<>>)
          => ManaAttrs(mana_bar) = mana_bar.pre
    /\ (mana_bar.op = "add_filling_part"
           /\ Len(mana_bar.pre.fill_part_list) = mana_bar.max_fillers)
          => ManaAttrs(mana_bar) = mana_bar.pre

(* add_filling_part was called on a full bar: one that was built empty     *)
(* and filled part by part up to max_fillers.                              *)
C35_Witness ==
    /\ mana_bar.op = "add_filling_part"
    /\ mana_bar.max_fillers = MaxFillers
    /\ Len(mana_bar.pre.fill_part_list) = MaxFillers
    /\ mana_bar.waited_time = None

-----------------------------------------------------------------------------
(* triple-dungeon (main.py): the key handlers of MyGame.  my_game holds    *)
(* prev_keypress, the player sprite's change_x and change_y, and held, the *)
(* keys that are down: a key is pressed when it is up and released when it *)
(* is down.                                                                *)

(* Bound: the keys held at the same time. *)
MaxHeld == 3

PLAYER_MOVEMENT_SPEED == 5

UpKeys == {"UP", "W"}
DownKeys == {"DOWN", "S"}
LeftKeys == {"LEFT", "A"}
RightKeys == {"RIGHT", "D"}
HorizontalKeys == LeftKeys \cup RightKeys
VerticalKeys == UpKeys \cup DownKeys
MovementKeys == HorizontalKeys \cup VerticalKeys

(* The keys of the keyboard: the movement keys and one that is none. *)
Keys == MovementKeys \cup {"SPACE"}

(* list.remove(x): the list without the first x; ValueError without one. *)
RECURSIVE ListRemove(_, _)
ListRemove(xs, x) ==
    IF xs = <<>> THEN xs
    ELSE IF xs[1] = x THEN Tail(xs)
    ELSE <<xs[1]>> \o ListRemove(Tail(xs), x)

ListHas(xs, x) == \E i \in 1..Len(xs) : xs[i] = x

(* on_key_press *)
OnKeyPress(g, key) ==
    IF key \in UpKeys
    THEN [g EXCEPT !.change_y = PLAYER_MOVEMENT_SPEED,
                   !.prev_keypress = Append(@, key)]
    ELSE IF key \in DownKeys
    THEN [g EXCEPT !.change_y = 0 - PLAYER_MOVEMENT_SPEED,
                   !.prev_keypress = Append(@, key)]
    ELSE IF key \in LeftKeys
    THEN [g EXCEPT !.change_x = 0 - PLAYER_MOVEMENT_SPEED,
                   !.prev_keypress = Append(@, key)]
    ELSE IF key \in RightKeys
    THEN [g EXCEPT !.change_x = PLAYER_MOVEMENT_SPEED,
                   !.prev_keypress = Append(@, key)]
    ELSE g

(* The oldest remembered key is pressed again. *)
Repress(g) ==
    IF g.prev_keypress # <<>>
    THEN OnKeyPress([g EXCEPT !.prev_keypress = Tail(@)], g.prev_keypress[1])
    ELSE g

(* on_key_release: the key's axis is stopped and the key forgotten, then   *)
(* the oldest remembered key is pressed again.  remove raises ValueError   *)
(* for a key that is not remembered, after the axis was stopped.           *)
OnKeyRelease(g, key) ==
    LET stopped ==
            IF key \in VerticalKeys THEN [g EXCEPT !.change_y = 0]
            ELSE IF key \in HorizontalKeys THEN [g EXCEPT !.change_x = 0]
            ELSE g
    IN  IF key \in MovementKeys /\ ~ListHas(g.prev_keypress, key)
        THEN [stopped EXCEPT !.exc = "ValueError"]
        ELSE IF key \in MovementKeys
        THEN Repress([stopped EXCEPT
                         !.prev_keypress = ListRemove(@, key)])
        ELSE Repress(stopped)

(* MyGame after __init__ and setup: the sprite stands still. *)
MyGame ==
    [prev_keypress |-> <<>>, change_x |-> 0, change_y |-> 0, held |-> {},
     last |-> "setup", exc |-> "none"]

KeysInit ==
    /\ my_game = MyGame
    /\ mana_bar = None
    /\ icon_button = None
    /\ soundtrack = None
    /\ NoSession

KeyPress ==
    /\ my_game.exc = "none"
    /\ Cardinality(my_game.held) < MaxHeld
    /\ \E key \in Keys \ my_game.held :
          my_game' = [OnKeyPress(my_game, key) EXCEPT
                         !.held = @ \cup {key}, !.last = "press"]
    /\ UNCHANGED <<mana_bar, icon_button, soundtrack>>

KeyRelease ==
    /\ my_game.exc = "none"
    /\ \E key \in my_game.held :
          my_game' = [OnKeyRelease(my_game, key) EXCEPT
                         !.held = @ \ {key}, !.last = "release"]
    /\ UNCHANGED <<mana_bar, icon_button, soundtrack>>

KeysNext ==
    \/ KeyPress /\ UNCHANGED <<sessionVars, driverVars, codecVars, bridgeVars>>
    \/ KeyRelease /\ UNCHANGED <<sessionVars, driverVars, codecVars, bridgeVars>>

SpecKeys == KeysInit /\ [][KeysNext]_vars

(* C36: while a horizontal key is held change_x is not 0, while a vertical *)
(* key is held change_y is not 0, and with no movement key held both are   *)
(* 0.                                                                      *)
C36_HeldKeysMovePlayer ==
    /\ my_game.held \cap HorizontalKeys # {} => my_game.change_x # 0
    /\ my_game.held \cap VerticalKeys # {} => my_game.change_y # 0
    /\ my_game.held \cap MovementKeys = {} =>
          my_game.change_x = 0 /\ my_game.change_y = 0

-----------------------------------------------------------------------------
(* IconButton (artemis/ui.py, and its later form in Finalists/artemis).    *)
(* icon_button holds the button's state, its place and size, fired, the    *)
(* number of times the callback fun has run, and last, the event of the    *)
(* last handler call.  The callback returns and leaves the button alone.   *)

(* Bound: the runs of the callback that are followed. *)
MaxClicks == 2

(* The two forms of the class. *)
ButtonVersions == {"artemis", "finalists"}

(* Where the pointer is when an event arrives, and arcade.get_viewport()[0] *)
(* at that time.                                                           *)
MouseXs == {7, 8, 12, 13}
MouseYs == {7, 8, 12, 13}
ViewportLefts == {0, 1}

(* IconButton.__init__ *)
IconButton(version, x, y, size) ==
    [version |-> version, state |-> "normal", center_x |-> x, center_y |-> y,
     size |-> size, fired |-> 0,
     last |-> [kind |-> "init", x |-> x, y |-> y, viewport |-> 0]]

(* left, right, bottom, top (size is even). *)
ButtonLeft(b) == b.center_x - b.size \div 2
ButtonRight(b) == b.center_x + b.size \div 2
ButtonBottom(b) == b.center_y - b.size \div 2
ButtonTop(b) == b.center_y + b.size \div 2

(* touching: x += arcade.get_viewport()[0], then the box test.  The first  *)
(* form of the class writes the same test out in each handler.             *)
Touching(b, x, y, viewport) ==
    /\ ButtonLeft(b) <= x + viewport
    /\ x + viewport <= ButtonRight(b)
    /\ ButtonBottom(b) <= y
    /\ y <= ButtonTop(b)

(* on_mouse_press *)
OnMousePress(b, x, y, viewport) ==
    IF Touching(b, x, y, viewport) THEN [b EXCEPT !.state = "pressed"] ELSE b

(* on_mouse_motion: the later form leaves a pressed button pressed while   *)
(* the pointer is on it; the first form makes it hover.                    *)
OnMouseMotion(b, x, y, viewport) ==
    IF Touching(b, x, y, viewport)
    THEN IF b.version = "finalists" /\ b.state = "pressed"
         THEN b
         ELSE [b EXCEPT !.state = "hover"]
    ELSE [b EXCEPT !.state = "normal"]

(* Faulty variant: a release runs the callback unless the state is normal. *)
ReleaseRunsUnlessNormal(state) == state # "normal"

(* if self.state == 'pressed' *)
ReleaseRuns(state) == state = "pressed"

(* on_mouse_release (and on_release): self.fun(), then the state. *)
OnMouseRelease(b) ==
    IF ReleaseRuns(b.state)
    THEN [b EXCEPT !.fired = @ + 1, !.state = "normal"]
    ELSE b

MouseEvent(kind, x, y, viewport) ==
    [kind |-> kind, x |-> x, y |-> y, viewport |-> viewport]

ButtonInit ==
    /\ \E v \in ButtonVersions : icon_button = IconButton(v, 10, 10, 4)
    /\ mana_bar = None
    /\ my_game = None
    /\ soundtrack = None
    /\ NoSession

MousePress ==
    /\ \E x \in MouseXs, y \in MouseYs, vp \in ViewportLefts :
          icon_button' = [OnMousePress(icon_button, x, y, vp) EXCEPT
                             !.last = MouseEvent("press", x, y, vp)]
    /\ UNCHANGED <<mana_bar, my_game, soundtrack>>

MouseMotion ==
    /\ \E x \in MouseXs, y \in MouseYs, vp \in ViewportLefts :
          icon_button' = [OnMouseMotion(icon_button, x, y, vp) EXCEPT
                             !.last = MouseEvent("motion", x, y, vp)]
    /\ UNCHANGED <<mana_bar, my_game, soundtrack>>

MouseRelease ==
    /\ ReleaseRuns(icon_button.state) => icon_button.fired < MaxClicks
    /\ \E x \in MouseXs, y \in MouseYs, vp \in ViewportLefts :
          icon_button' = [OnMouseRelease(icon_button) EXCEPT
                             !.last = MouseEvent("release", x, y, vp)]
    /\ UNCHANGED <<mana_bar, my_game, soundtrack>>

(* on_mouse_drag of the later form: "Don't do anything". *)
MouseDrag ==
    /\ icon_button.version = "finalists"
    /\ \E x \in MouseXs, y \in MouseYs, vp \in ViewportLefts :
          icon_button' = [icon_button EXCEPT
                             !.last = MouseEvent("drag", x, y, vp)]
    /\ UNCHANGED <<mana_bar, my_game, soundtrack>>

ButtonNext ==
    \/ MousePress /\ UNCHANGED <<sessionVars, driverVars, codecVars, bridgeVars>>
    \/ MouseMotion /\ UNCHANGED <<sessionVars, driverVars, codecVars, bridgeVars>>
    \/ MouseRelease /\ UNCHANGED <<sessionVars, driverVars, codecVars, bridgeVars>>
    \/ MouseDrag /\ UNCHANGED <<sessionVars, driverVars, codecVars, bridgeVars>>

SpecButton == ButtonInit /\ [][ButtonNext]_vars

(* The event of the step is off the button. *)
OffButton(b, e) == ~Touching(b, e.x, e.y, e.viewport)

(* C37: the callback runs once at a release that finds the state pressed,  *)
(* and the state is normal after it; it runs at no other event.  A press   *)
(* off the button leaves the state as it was, and a motion off the button  *)
(* leaves the state normal, so that the release that follows either runs   *)
(* no callback.                                                            *)
C37_CallbackOnlyOnPressedRelease ==
    [][LET b == icon_button
           e == icon_button'.last
           after == icon_button'
           ran == after.fired # b.fired
       IN  /\ ran <=> (e.kind = "release" /\ b.state = "pressed")
           /\ ran => (after.fired = b.fired + 1 /\ after.state = "normal")
           /\ (e.kind = "press" /\ OffButton(b, e)) => after.state = b.state
           /\ (e.kind = "motion" /\ OffButton(b, e)) => after.state = "normal"
           /\ (e.kind = "release" /\ b.state # "pressed") =>
                 after.state = b.state]_vars

(* The callback has run MaxClicks times, each time at a release, and a     *)
(* release is the last event.                                              *)
C37_Witness ==
    /\ icon_button.fired = MaxClicks
    /\ icon_button.last.kind = "release"
    /\ icon_button.state = "normal"

-----------------------------------------------------------------------------
(* SoundtrackManager (triple_vision/sound.py).  A file name is written     *)
(* <<name>> and the path get_sound_path makes of it <<directory, name>>,   *)
(* so that a name and its path are different strings, as they are in the   *)
(* program.                                                                *)

(* Bound: the songs of the music list. *)
MaxSongs == 3

SOUND_ASSETS_PATH == "./assets/audio/soundtracks"

FileNames == { <<"a.mp3">>, <<"b.mp3">> }

(* str(self._sound_assets_path / sound_name) *)
GetSoundPath(file_name) == <<SOUND_ASSETS_PATH>> \o file_name

(* What the methods are called with: a file name, or the path of one. *)
SoundArgs == FileNames \cup { GetSoundPath(f) : f \in FileNames }

(* The music lists a manager is built with: not empty. *)
MusicLists == { <<f>> : f \in FileNames } \cup { <<f, g>> : f, g \in FileNames }

(* SoundtrackManager.__init__ *)
SoundtrackManager(music_list) ==
    [music_list |-> [i \in 1..Len(music_list) |-> GetSoundPath(music_list[i])],
     current_song_position |-> 0,
     curr_sound |-> None,
     op |-> "init", arg |-> <<>>, exc |-> "none"]

(* add_sound *)
AddSound(st, file_name) ==
    [st EXCEPT !.music_list = Append(@, GetSoundPath(file_name))]

(* remove_sound: the list is searched for file_name as it is given. *)
RemoveSound(st, file_name) ==
    IF ~ListHas(st.music_list, file_name) THEN st
    ELSE [st EXCEPT !.music_list = ListRemove(@, file_name)]

(* advance_song *)
AdvanceSong(st) ==
    LET next == st.current_song_position + 1
    IN  [st EXCEPT !.current_song_position =
                       IF next >= Len(st.music_list) THEN 0 ELSE next]

(* play_song: self.music_list[self.current_song_position] raises           *)
(* IndexError when the position is no index of the list.                   *)
PlaySong(st) ==
    IF st.current_song_position < Len(st.music_list)
    THEN [st EXCEPT !.curr_sound = Some(st.music_list[st.current_song_position + 1])]
    ELSE [st EXCEPT !.exc = "IndexError"]

SoundCalled(st, op, arg) == [st EXCEPT !.op = op, !.arg = arg, !.exc = "none"]

SoundtrackInit ==
    /\ \E ml \in MusicLists : soundtrack = SoundtrackManager(ml)
    /\ mana_bar = None
    /\ my_game = None
    /\ icon_button = None
    /\ NoSession

DoAddSound ==
    /\ Len(soundtrack.music_list) < MaxSongs
    /\ \E f \in FileNames :
          soundtrack' = AddSound(SoundCalled(soundtrack, "add_sound", f), f)
    /\ UNCHANGED <<mana_bar, my_game, icon_button>>

DoRemoveSound ==
    /\ \E f \in SoundArgs :
          soundtrack' = RemoveSound(SoundCalled(soundtrack, "remove_sound", f), f)
    /\ UNCHANGED <<mana_bar, my_game, icon_button>>

DoAdvanceSong ==
    /\ soundtrack' = AdvanceSong(SoundCalled(soundtrack, "advance_song", <<>>))
    /\ UNCHANGED <<mana_bar, my_game, icon_button>>

DoPlaySong ==
    /\ soundtrack' = PlaySong(SoundCalled(soundtrack, "play_song", <<>>))
    /\ UNCHANGED <<mana_bar, my_game, icon_button>>

SoundtrackNext ==
    \/ DoAddSound /\ UNCHANGED <<sessionVars, driverVars, codecVars, bridgeVars>>
    \/ DoRemoveSound /\ UNCHANGED <<sessionVars, driverVars, codecVars, bridgeVars>>
    \/ DoAdvanceSong /\ UNCHANGED <<sessionVars, driverVars, codecVars, bridgeVars>>
    \/ DoPlaySong /\ UNCHANGED <<sessionVars, driverVars, codecVars, bridgeVars>>

SpecSoundtrack == SoundtrackInit /\ [][SoundtrackNext]_vars

(* C38: while the music list is not empty current_song_position is an      *)
(* index of it, and play_song finds its song.                              *)
C38_PositionIsValidIndex ==
    soundtrack.music_list # <<>> =>
        /\ soundtrack.current_song_position \in
              0..(Len(soundtrack.music_list) - 1)
        /\ soundtrack.op = "play_song" => soundtrack.exc = "none"

=============================================================================
